---- MODULE Spec2Model ----
(***************************************************************************)
(* Cooperative schedulers of the repository and the AsyncQueue built on    *)
(* them.                                                                   *)
(*                                                                         *)
(*   Part A  heapq, as the schedulers use it                               *)
(*   Part B  src/async_io/async_producer_close.py: coroutine Scheduler and *)
(*           AsyncQueue with close(); src/build_your_own_async/            *)
(*           async_producer.py: the AsyncQueue without close()             *)
(*   Part C  src/build_your_own_async/async_cb_producer_close.py: the      *)
(*           callback Scheduler and AsyncQueue with close()                *)
(*   Part D  src/async_io/async_io.py: the select-based Scheduler with     *)
(*           Task, timers, read / write waits and its AsyncQueue           *)
(*   Part E  src/event_loop/loop.py: SleepingLoop                          *)
(*   Part F  src/event_loop.py: run, the event loop built on select        *)
(*   Part G  src/async_io/async_gen.py: the generator Scheduler            *)
(*   Part H  src/server/server.py and src/event_loop/server_loop.py: the   *)
(*           echo server on a selector                                     *)
(***************************************************************************)
EXTENDS Integers, Sequences, FiniteSets, TLC

\* ------------------------------------------------------------------ bounds
NTasks == 3      \* coroutines handed to the coroutine scheduler
MaxPuts == 2     \* successful put calls in one run
MaxSeq == 1      \* sleep / call_later calls of arbitrary tasks in one run
MaxTime == 1     \* last clock reading modelled
SleepDelay == 1  \* the delay producer gives to sleep / call_later
MaxCount == 2    \* largest count given to producer(q, count)
NChains == 2     \* callback chains handed to the callback scheduler
MaxReady == 3    \* longest ready deque of the callback scheduler
NFuncs == 2      \* tasks and callbacks handed to the select-based scheduler
NSocks == 2      \* sockets the tasks wait on
MaxIoPuts == 1   \* put calls on the AsyncQueue of async_io.py
MaxIoSeq == 2    \* sleep / call_later calls on the select-based scheduler
NCoros == 4      \* coroutines given to SleepingLoop
NNappers == 2    \* coroutines given to SleepingLoop in SpecNap
MaxSleeps == 1   \* sleep calls of one coroutine after its first
MaxClosedSeen == 2  \* QueueClosed results to callbacks are counted up to here
NElCoros == 4    \* coroutines given to run of event_loop.py
NFiles == 1      \* files the coroutines of event_loop.py read
NGens == 3       \* generators handed to the generator scheduler
MaxBytes == 3    \* bytes the echo server's client sends in all
SvBuffer == 2    \* bytes the connection's send buffer holds

None == 0
Tasks == 1..NTasks
Chains == 1..NChains
Funcs == 1..NFuncs
Socks == 1..NSocks
Coros == 1..NCoros
ElCoros == 1..NElCoros
Files == 1..NFiles
Gens == 1..NGens

\* ------------------------------------------------------------- sequences
Count(s, x) == Cardinality({i \in DOMAIN s : s[i] = x})
InSeq(s, x) == \E i \in DOMAIN s : s[i] = x
Max(a, b) == IF a > b THEN a ELSE b

\* ================================================================= Part A
\* heapq on a Python list; list index i is sequence index i + 1.
\* Entries are <<deadline, sequence, task>>.  bySeq = TRUE compares them as
\* Python compares the tuples (deadline, sequence, ...); bySeq = FALSE
\* compares them as loop.py's Task.__lt__ does, by wait_until alone.
Less(bySeq, a, b) ==
    \/ a[1] < b[1]
    \/ bySeq /\ a[1] = b[1] /\ a[2] < b[2]

RECURSIVE SiftDown(_, _, _, _, _)
\* heapq._siftdown(heap, startpos, pos) with newitem held aside
SiftDown(bySeq, heap, startpos, pos, newitem) ==
    IF pos > startpos
    THEN LET parentpos == (pos - 1) \div 2
             parent == heap[parentpos + 1]
         IN IF Less(bySeq, newitem, parent)
            THEN SiftDown(bySeq, [heap EXCEPT ![pos + 1] = parent],
                          startpos, parentpos, newitem)
            ELSE [heap EXCEPT ![pos + 1] = newitem]
    ELSE [heap EXCEPT ![pos + 1] = newitem]

RECURSIVE SiftUpLoop(_, _, _, _, _)
\* the while loop of heapq._siftup: bubble the smaller child up to a leaf
SiftUpLoop(bySeq, heap, startpos, pos, newitem) ==
    LET endpos == Len(heap)
        childpos == 2 * pos + 1
        rightpos == childpos + 1
    IN IF childpos < endpos
       THEN LET c == IF rightpos < endpos
                        /\ ~Less(bySeq, heap[childpos + 1], heap[rightpos + 1])
                     THEN rightpos ELSE childpos
            IN SiftUpLoop(bySeq, [heap EXCEPT ![pos + 1] = heap[c + 1]],
                          startpos, c, newitem)
       ELSE SiftDown(bySeq, heap, startpos, pos, newitem)

HeapPush(bySeq, heap, item) ==
    SiftDown(bySeq, Append(heap, item), 0, Len(heap), item)

\* the list heappop leaves behind; the item it returns is heap[1]
\* (or the only element)
HeapPop(bySeq, heap) ==
    LET lastelt == heap[Len(heap)]
        rest == SubSeq(heap, 1, Len(heap) - 1)
    IN IF rest = <<>> THEN rest
       ELSE SiftUpLoop(bySeq, [rest EXCEPT ![1] = lastelt], 0, 0, lastelt)

HeapTop(heap) == heap[1]

\* ================================================================= Part B
VARIABLES
    ready,      \* Scheduler.ready: deque of coroutines
    sleeping,   \* Scheduler.sleeping: heap of (deadline, sequence, coro)
    current,    \* Scheduler.current
    sequence,   \* Scheduler.sequence
    items,      \* AsyncQueue.items
    waiting,    \* AsyncQueue.waiting
    closed,     \* AsyncQueue._closed
    now,        \* time.monotonic()
    running,    \* coroutine whose code is executing inside send(), or None
    runst,      \* "idle" before run(), "run", "returned", "raised"
    pc,         \* position of each coroutine in its body
    inget,      \* coroutine is suspended inside AsyncQueue.get
    count,      \* the count given to producer(q, count)
    nput,       \* number of successful puts; put number n (from 0) puts item n
    gotlog,     \* the items returned by completed gets, in completion order
    woke,       \* who rescheduled a waiting getter, and with which item
    ev          \* the last operation and its outcome

qVars == <<ready, sleeping, current, sequence, items, waiting, closed, now,
           running, runst, pc, inget, count, nput, gotlog, woke, ev>>

\* Part C: async_cb_producer_close.py.  A function on ready, on the heap or
\* on waiting is <<"fn", t>>, a function of callback chain t, or
\* <<"get", t>>, the closure "lambda: self.get(callback)" of chain t.
VARIABLES
    cb_ready,     \* Scheduler.ready
    cb_sleeping,  \* Scheduler.sleeping: heap of (deadline, sequence, func)
    cb_sequence,  \* Scheduler.sequence
    cb_items,     \* AsyncQueue.items
    cb_waiting,   \* AsyncQueue.waiting
    cb_closed,    \* AsyncQueue._closed
    cb_now,       \* time.monotonic()
    cb_running,   \* chain whose function run() is executing, or None
    cb_pos,       \* position inside the executing function
    cb_runst,     \* "idle" before run(), "run", "returned", "raised"
    cb_body,      \* what the functions of each chain are
    cb_inget,     \* chain has a get call that has not called back yet
    cb_count,     \* the count given to producer(q, count)
    cb_nput,      \* number of successful puts
    cb_gotlog,    \* the items passed to callbacks, in order
    cb_nclosed,   \* QueueClosed results passed to callbacks, counted up to
                  \* MaxClosedSeen
    cb_ev         \* the last operation and its outcome

cbVars == <<cb_ready, cb_sleeping, cb_sequence, cb_items, cb_waiting,
            cb_closed, cb_now, cb_running, cb_pos, cb_runst, cb_body,
            cb_inget, cb_count, cb_nput, cb_gotlog, cb_nclosed, cb_ev>>

\* Part D: async_io.py.  A function on ready, on the heap or in a waiter
\* map is the number of a Task or of a plain callback; io_kind tells which.
\* A waiter map is the sequence of its (socket, function) pairs in insertion
\* order, as a dict iterates.
VARIABLES
    io_ready,     \* Scheduler.ready
    io_sleeping,  \* Scheduler.sleeping: heap of (deadline, sequence, func)
    io_current,   \* Scheduler.current
    io_sequence,  \* Scheduler.sequence
    io_read,      \* Scheduler.read_waiting
    io_write,     \* Scheduler.write_waiting
    io_now,       \* time.monotonic()
    io_running,   \* function run() is executing, or None
    io_runst,     \* "idle" before run(), "run", "returned", "raised"
    io_kind,      \* "unborn", "task", "fn"; "done" for a Task whose coroutine
                  \* has finished
    io_mark,      \* (deadline, sequence) a function left the heap with
    io_last,      \* (deadline, sequence) of the last timer that was resumed
    io_items,     \* AsyncQueue.items of async_io.py
    io_qwaiting,  \* AsyncQueue.waiting: the Tasks suspended in get
    io_inget,     \* the Tasks whose coroutine is suspended inside get
    io_nput,      \* put calls so far; the n-th put puts the item n - 1
    io_in,        \* what the last step took from outside the scheduler
    io_ev         \* the last operation and its outcome

\* the AsyncQueue of async_io.py
ioqVars == <<io_items, io_qwaiting, io_inget, io_nput>>
ioVars == <<io_ready, io_sleeping, io_current, io_sequence, io_read, io_write,
            io_now, io_running, io_runst, io_kind, io_mark, io_last, ioqVars,
            io_in, io_ev>>

\* Part E: loop.py.  A Task on _waiting is (wait_until, push number, coro);
\* the push number is not in the program and no comparison reads it.
VARIABLES
    lp_waiting,   \* SleepingLoop._waiting
    lp_now,       \* time.time()
    lp_phase,     \* "start" in the for loop of run_until_complete, "loop" in
                  \* its while loop, "returned", "raised"
    lp_next,      \* the coroutine of _new the for loop starts next
    lp_sleeps,    \* sleep calls each coroutine has made after its first
    lp_pushes,    \* number of heappush calls so far
    lp_last,      \* (wait_until, push number) of the last Task resumed
    lp_called,    \* per coroutine: (clock reading, seconds) of the sleep call
                  \* it is suspended in
    lp_slept,     \* the last resumption: the coroutine, the value sent to
                  \* it, and what its sleep(seconds) returned
    lp_ev         \* the last operation and its outcome

lpVars == <<lp_waiting, lp_now, lp_phase, lp_next, lp_sleeps, lp_pushes,
            lp_last, lp_called, lp_slept, lp_ev>>

\* src/event_loop.py, run
VARIABLES
    el_waiting,   \* waiting: list of <<until, coroutine>>, kept sorted
    el_read,      \* waiting_read: dict file -> coroutine, as <<file, coroutine>>
    el_now,       \* the last reading of time.time()
    el_pc,        \* "idle", "loop", "returned" or "raised"
    el_kind,      \* per coroutine: "unborn", "live" or "done"
    el_ev         \* what the last step did

elVars == <<el_waiting, el_read, el_now, el_pc, el_kind, el_ev>>

\* src/async_io/async_gen.py, the generator Scheduler
VARIABLES
    gn_ready,     \* Scheduler.ready
    gn_current,   \* Scheduler.current
    gn_running,   \* the generator inside next(), or None
    gn_runst,     \* "idle", "run" or "returned"
    gn_kind,      \* per generator: "unborn", "live" or "done"
    gn_ahead,     \* per generator: what was on ready when it was appended,
                  \* who appended it, what of it has not stepped since
    gn_ev         \* what the last step did

gnVars == <<gn_ready, gn_current, gn_running, gn_runst, gn_kind, gn_ahead,
            gn_ev>>

\* src/server/server.py, one accepted connection
VARIABLES
    sv_conn,      \* "none", "registered", or "closed" (unregistered and closed)
    sv_outb,      \* len(data.outb)
    sv_pending,   \* bytes received from the client and not yet read by recv
    sv_eof,       \* the client has shut down its sending side
    sv_room,      \* free space in the connection's send buffer
    sv_nsent,     \* bytes the client has sent so far
    sv_st,        \* "run", or "raised" once an exception has left the loop
    sv_ev         \* the last call of service_connection: its mask, what recv
                  \* returned and what became of send

svVars == <<sv_conn, sv_outb, sv_pending, sv_eof, sv_room, sv_nsent, sv_st,
            sv_ev>>

\* two runs of the select-based Scheduler on the same inputs: the first
\* run's step is taken, undone and taken again as the second run's
VARIABLES
    tw_phase,     \* "lead", "rewind", "follow" or "compare"
    tw_saved,     \* the state both runs were in before the step
    tw_first      \* the state the first run's step led to

twVars == <<tw_phase, tw_saved, tw_first>>

vars == <<qVars, cbVars, ioVars, lpVars, elVars, gnVars, svVars, twVars>>

\* what the actions of one part leave alone
notQ == <<cbVars, ioVars, lpVars, elVars, gnVars, svVars, twVars>>
notCb == <<qVars, ioVars, lpVars, elVars, gnVars, svVars, twVars>>
notIo == <<qVars, cbVars, lpVars, elVars, gnVars, svVars, twVars>>
notLp == <<qVars, cbVars, ioVars, elVars, gnVars, svVars, twVars>>
notEl == <<qVars, cbVars, ioVars, lpVars, gnVars, svVars, twVars>>
notGn == <<qVars, cbVars, ioVars, lpVars, elVars, svVars, twVars>>
notSv == <<qVars, cbVars, ioVars, lpVars, elVars, gnVars, twVars>>

notIoTw == <<qVars, cbVars, lpVars, elVars, gnVars, svVars>>

NoWoke == [by |-> "no", item |-> -1]
NoSlept == [c |-> None, sent |-> <<>>, seconds |-> 0, returned |-> 0]
Ev(op, t, res) == [op |-> op, t |-> t, res |-> res]
\* what a step of Part D takes from outside the scheduler: the request op of
\* the program ("step" when run() takes the next step of its loops) with its
\* argument arg (a delay or a socket), and for a select the sockets rs and ws
\* it reported and the clock reading n taken after it
In(op, rs, ws, n, arg) == [op |-> op, rs |-> rs, ws |-> ws, n |-> n, arg |-> arg]
\* a request without argument
Req(op) == In(op, {}, {}, 0, 0)
TwInit == tw_phase = "lead" /\ tw_saved = <<>> /\ tw_first = <<>>

\* Part C: Scheduler.__init__, AsyncQueue.__init__
CbInit ==
    /\ cb_ready = <<>>
    /\ cb_sleeping = <<>>
    /\ cb_sequence = 0
    /\ cb_items = <<>>
    /\ cb_waiting = <<>>
    /\ cb_closed = FALSE
    /\ cb_now = 0
    /\ cb_running = None
    /\ cb_pos = "none"
    /\ cb_runst = "idle"
    /\ cb_body = [t \in Chains |-> "unborn"]
    /\ cb_inget = [t \in Chains |-> FALSE]
    /\ cb_nput = 0
    /\ cb_gotlog = <<>>
    /\ cb_nclosed = 0
    /\ cb_ev = Ev("init", None, "ok")

\* Part D: Scheduler.__init__
IoInit ==
    /\ io_ready = <<>>
    /\ io_sleeping = <<>>
    /\ io_current = None
    /\ io_sequence = 0
    /\ io_read = <<>>
    /\ io_write = <<>>
    /\ io_now = 0
    /\ io_running = None
    /\ io_runst = "idle"
    /\ io_kind = [f \in Funcs |-> "unborn"]
    /\ io_mark = [f \in Funcs |-> <<>>]
    /\ io_last = <<0, 0>>
    /\ io_items = <<>>
    /\ io_qwaiting = <<>>
    /\ io_inget = {}
    /\ io_nput = 0
    /\ io_in = Req("init")
    /\ io_ev = Ev("init", None, "ok")

\* Part H: the server before a client connects
SvInit ==
    /\ sv_conn = "none"
    /\ sv_outb = 0
    /\ sv_pending = 0
    /\ sv_eof = FALSE
    /\ sv_room = SvBuffer
    /\ sv_nsent = 0
    /\ sv_st = "run"
    /\ sv_ev = [mask |-> {}, recv |-> -1, send |-> "none"]

\* Part E: SleepingLoop.__init__
NotAhead == [by |-> None, first |-> TRUE, were |-> {}, left |-> {}]
GnInit ==
    /\ gn_ready = <<>>
    /\ gn_current = None
    /\ gn_running = None
    /\ gn_runst = "idle"
    /\ gn_kind = [g \in Gens |-> "unborn"]
    /\ gn_ahead = [g \in Gens |-> NotAhead]
    /\ gn_ev = Ev("init", None, "ok")

ElInit ==
    /\ el_waiting = <<>>
    /\ el_read = <<>>
    /\ el_now = 0
    /\ el_pc = "idle"
    /\ el_kind = [c \in ElCoros |-> "unborn"]
    /\ el_ev = [op |-> "init", t |-> None, res |-> "ok", by |-> "none", until |-> 0]

LpInit ==
    /\ lp_waiting = <<>>
    /\ lp_now = 0
    /\ lp_phase = "start"
    /\ lp_next = 1
    /\ lp_sleeps = [c \in Coros |-> 0]
    /\ lp_pushes = 0
    /\ lp_last = <<0, 0>>
    /\ lp_called = [c \in Coros |-> <<0, 0>>]
    /\ lp_slept = NoSlept
    /\ lp_ev = Ev("init", None, "ok")

\* Part B: Scheduler.__init__, AsyncQueue.__init__
QInit ==
    /\ ready = <<>>
    /\ sleeping = <<>>
    /\ current = None
    /\ sequence = 0
    /\ items = <<>>
    /\ waiting = <<>>
    /\ closed = FALSE
    /\ now = 0
    /\ running = None
    /\ runst = "idle"
    /\ inget = [t \in Tasks |-> FALSE]
    /\ nput = 0
    /\ gotlog = <<>>
    /\ woke = [t \in Tasks |-> NoWoke]
    /\ ev = Ev("init", None, "ok")

\* nothing of the program has run yet
QUntouched == runst = "idle" /\ \A t \in Tasks : pc[t] = "unborn"
CbUntouched == cb_runst = "idle" /\ \A t \in Chains : cb_body[t] = "unborn"

\* ---- the coroutine bodies: where a coroutine continues after an operation.
\* "body" is an arbitrary coroutine; "p_*" are the positions of producer()
\* and "c_*" those of consumer().
AfterPut(p) == IF p = "p_loop" THEN "p_sleep" ELSE p
AfterSleep(p) == IF p = "p_sleep" THEN "p_loop" ELSE p
AfterClose(p) == IF p = "p_loop" THEN "p_end" ELSE p
AfterGetClosed(p) == IF p = "c_get" THEN "c_end" ELSE p
\* whether the body has an except clause around the operation
Catches(p) ==
    IF p = "c_get" THEN {TRUE}
    ELSE IF p \in {"p_loop", "p_sleep", "p_end", "c_end"} THEN {FALSE}
    ELSE BOOLEAN

\* ---- the decisions of Scheduler and AsyncQueue, one operator per branch
\* put with the closed check left out
PutNeverFails(c) == FALSE
\* AsyncQueue.put: the closed check
PutFails(c) == c
\* put with appendleft for append
PutItemsFront(its, x) == <<x>> \o its
\* AsyncQueue.put: items.append(item)
PutItems(its, x) == Append(its, x)
\* AsyncQueue.put: the getters put takes off waiting and appends to ready
PutWakes(w) == IF w # <<>> THEN <<Head(w)>> ELSE <<>>
\* close that reschedules nobody
CloseWakesNobody(w, its) == <<>>
\* AsyncQueue.close: the getters close takes off waiting (the while loop
\* runs until waiting is empty when items is empty, and not at all otherwise)
CloseWakes(w, its) == IF its = <<>> THEN w ELSE <<>>
\* a get that suspends its caller once before it looks at items
GetOutcomeWaitFirst(its, c, cur) ==
    IF cur = None THEN "RuntimeError" ELSE "wait"
\* get without the closed check
GetOutcomeNoClosed(its, c, cur) ==
    IF its # <<>> THEN "item"
    ELSE IF cur = None THEN "RuntimeError"
    ELSE "wait"
\* AsyncQueue.get: one pass of "while not self.items"
GetOutcome(its, c, cur) ==
    IF its # <<>> THEN "item"
    ELSE IF c THEN "QueueClosed"
    ELSE IF cur = None THEN "RuntimeError"
    ELSE "wait"
\* Scheduler.run: "if self.current: self.ready.append(self.current)"
Reappend(cur) == cur # None
\* a run() whose loop condition leaves out ready
RunContinuesOnTimers(r, s) == s # <<>>
\* Scheduler.run: "while self.ready or self.sleeping"
RunContinues(r, s) == r # <<>> \/ s # <<>>

MarkWoke(w, ts, how, x) ==
    [t \in Tasks |-> IF InSeq(ts, t) THEN [by |-> how, item |-> x] ELSE w[t]]

\* an exception raised inside the coroutine t: the body catches it and goes
\* on at k, or it leaves send() and run()
Raises(t, op, res, caught, k) ==
    /\ ev' = Ev(op, t, res)
    /\ pc' = [pc EXCEPT ![t] = IF caught THEN k ELSE "done"]
    /\ running' = IF caught THEN t ELSE None
    /\ runst' = IF caught THEN runst ELSE "raised"

\* Scheduler.new_task, called before run(); the coroutines are created in
\* the order of their numbers
NewTask(t, body) ==
    /\ runst = "idle"
    /\ pc[t] = "unborn"
    /\ \A u \in Tasks : u < t => pc[u] # "unborn"
    /\ ready' = Append(ready, t)
    /\ pc' = [pc EXCEPT ![t] = body]
    /\ ev' = Ev("new_task", t, "ok")
    /\ UNCHANGED <<sleeping, current, sequence, items, waiting, closed, now,
                   running, runst, inget, count, nput, gotlog, woke>>

\* sched.run() is called
RunStart ==
    /\ runst = "idle"
    /\ runst' = "run"
    /\ ev' = Ev("run", None, "ok")
    /\ UNCHANGED <<ready, sleeping, current, sequence, items, waiting, closed,
                   now, running, pc, inget, count, nput, gotlog, woke>>

\* AsyncQueue.get from the top of its while loop, by coroutine t whose
\* Scheduler.current reads cur; rdy is the ready deque at that moment
GetLoop(op, t, cur, rdy) ==
    LET out == GetOutcome(items, closed, cur)
    IN /\ sequence' = sequence
       /\ closed' = closed
       /\ nput' = nput
       /\ count' = count
       /\ ready' = rdy
       /\ woke' = [woke EXCEPT ![t] = NoWoke]
       /\ IF out = "item"
          THEN /\ items' = Tail(items)
               /\ gotlog' = Append(gotlog, Head(items))
               /\ ev' = Ev(op, t, "item")
               /\ waiting' = waiting
               /\ current' = cur
               /\ running' = t
               /\ inget' = [inget EXCEPT ![t] = FALSE]
               /\ UNCHANGED <<pc, runst>>
          ELSE IF out = "wait"
          THEN /\ waiting' = Append(waiting, cur)
               /\ current' = None
               \* await Switch(): send() returns, current is None, run() does
               \* not append the coroutine
               /\ running' = None
               /\ inget' = [inget EXCEPT ![t] = TRUE]
               /\ ev' = Ev(op, t, "wait")
               /\ UNCHANGED <<items, gotlog, pc, runst>>
          ELSE /\ \E caught \in Catches(pc[t]) :
                      Raises(t, op, out, caught, AfterGetClosed(pc[t]))
               /\ current' = cur
               /\ inget' = [inget EXCEPT ![t] = FALSE]
               /\ UNCHANGED <<items, waiting, gotlog>>

\* One iteration of Scheduler.run up to and including send(None): wake the
\* earliest sleeper if nothing is ready, pop the next coroutine and resume it.
\* A coroutine suspended in get resumes inside get's while loop.
RunIter ==
    /\ runst = "run"
    /\ running = None
    /\ RunContinues(ready, sleeping)
    /\ LET idle == ready = <<>>
           ent == HeapTop(sleeping)
           rdy == IF idle THEN <<ent[3]>> ELSE ready
           t == Head(rdy)
       IN /\ sleeping' = IF idle THEN HeapPop(TRUE, sleeping) ELSE sleeping
          \* time.sleep(delta) when delta > 0
          /\ now' = IF idle THEN Max(now, ent[1]) ELSE now
          /\ IF inget[t]
             THEN GetLoop("reget", t, t, Tail(rdy))
             ELSE /\ ready' = Tail(rdy)
                  /\ current' = t
                  /\ running' = t
                  /\ ev' = Ev("resume", t, "ok")
                  /\ woke' = [woke EXCEPT ![t] = NoWoke]
                  /\ UNCHANGED <<sequence, items, waiting, closed, runst, pc,
                                 inget, count, nput, gotlog>>

\* run() leaves its while loop
RunReturn ==
    /\ runst = "run"
    /\ running = None
    /\ ~RunContinues(ready, sleeping)
    /\ runst' = "returned"
    /\ ev' = Ev("return", None, "ok")
    /\ UNCHANGED <<ready, sleeping, current, sequence, items, waiting, closed,
                   now, running, pc, inget, count, nput, gotlog, woke>>

\* AsyncQueue.put(item) by the running coroutine t
Put(t) ==
    /\ running = t
    /\ IF PutFails(closed)
       THEN /\ \E caught \in Catches(pc[t]) :
                   Raises(t, "put", "QueueClosed", caught, pc[t])
            /\ UNCHANGED <<ready, sleeping, current, sequence, items, waiting,
                           closed, now, inget, count, nput, gotlog, woke>>
       ELSE /\ items' = PutItems(items, nput)
            /\ nput' = nput + 1
            /\ ready' = ready \o PutWakes(waiting)
            /\ waiting' = SubSeq(waiting, Len(PutWakes(waiting)) + 1, Len(waiting))
            /\ woke' = MarkWoke(woke, PutWakes(waiting), "put", nput)
            /\ pc' = [pc EXCEPT ![t] = AfterPut(pc[t])]
            /\ ev' = Ev("put", t, "ok")
            /\ UNCHANGED <<sleeping, current, sequence, closed, now, running,
                           runst, inget, count, gotlog>>

\* AsyncQueue.close() by the running coroutine t
Close(t) ==
    /\ running = t
    /\ closed' = TRUE
    /\ ready' = ready \o CloseWakes(waiting, items)
    /\ waiting' = SubSeq(waiting, Len(CloseWakes(waiting, items)) + 1, Len(waiting))
    /\ woke' = MarkWoke(woke, CloseWakes(waiting, items), "close", -1)
    /\ pc' = [pc EXCEPT ![t] = AfterClose(pc[t])]
    /\ ev' = Ev("close", t, "ok")
    /\ UNCHANGED <<sleeping, current, sequence, items, now, running, runst,
                   inget, count, nput, gotlog>>

\* "await q.get()" by the running coroutine t
Get(t) ==
    /\ running = t
    /\ GetLoop("get", t, current, ready)
    /\ UNCHANGED <<sleeping, now>>

\* "await sleep(delay)" by the running coroutine t: Scheduler.sleep
Sleep(t, delay) ==
    /\ running = t
    /\ IF current = None
       THEN /\ Raises(t, "sleep", "RuntimeError", FALSE, pc[t])
            /\ UNCHANGED <<ready, sleeping, current, sequence, items, waiting,
                           closed, now, inget, count, nput, gotlog, woke>>
       ELSE /\ sequence' = sequence + 1
            /\ sleeping' = HeapPush(TRUE, sleeping, <<now + delay, sequence + 1, current>>)
            /\ current' = None
            \* await Switch(): send() returns and run() finds current None
            /\ running' = None
            /\ pc' = [pc EXCEPT ![t] = AfterSleep(pc[t])]
            /\ ev' = Ev("sleep", t, "ok")
            /\ UNCHANGED <<ready, items, waiting, closed, now, runst, inget,
                           count, nput, gotlog, woke>>

\* "await Switch()" by the running coroutine t, nothing registered: send()
\* returns and run() appends current to ready
Yield(t) ==
    /\ running = t
    /\ running' = None
    /\ ready' = IF Reappend(current) THEN Append(ready, current) ELSE ready
    /\ ev' = Ev("yield", t, "ok")
    /\ UNCHANGED <<sleeping, current, sequence, items, waiting, closed, now,
                   runst, pc, inget, count, nput, gotlog, woke>>

\* the coroutine t returns: send() raises StopIteration, which run() passes
Finish(t) ==
    /\ running = t
    /\ running' = None
    /\ pc' = [pc EXCEPT ![t] = "done"]
    /\ ev' = Ev("finish", t, "ok")
    /\ UNCHANGED <<ready, sleeping, current, sequence, items, waiting, closed,
                   now, runst, inget, count, nput, gotlog, woke>>

\* the clock advances
Tick ==
    /\ runst = "run"
    /\ now < MaxTime
    /\ now' = now + 1
    /\ ev' = Ev("tick", None, "ok")
    /\ UNCHANGED <<ready, sleeping, current, sequence, items, waiting, closed,
                   running, runst, pc, inget, count, nput, gotlog, woke>>

\* ---- arbitrary coroutines on one queue: specification Spec
TaskNew == (\E t \in Tasks : NewTask(t, "body")) /\ UNCHANGED notQ
Start == RunStart /\ UNCHANGED notQ
Iter == RunIter /\ UNCHANGED notQ
Return == RunReturn /\ UNCHANGED notQ
Clock == Tick /\ UNCHANGED notQ
TaskPut ==
    /\ \E t \in Tasks : pc[t] = "body" /\ (closed \/ nput < MaxPuts) /\ Put(t)
    /\ UNCHANGED notQ
TaskClose == (\E t \in Tasks : pc[t] = "body" /\ Close(t)) /\ UNCHANGED notQ
TaskGet == (\E t \in Tasks : pc[t] = "body" /\ Get(t)) /\ UNCHANGED notQ
TaskSleep ==
    /\ \E t \in Tasks, d \in {0, SleepDelay} :
          /\ pc[t] = "body"
          /\ now + d <= MaxTime
          /\ sequence < MaxSeq
          /\ Sleep(t, d)
    /\ UNCHANGED notQ
TaskYield == (\E t \in Tasks : pc[t] = "body" /\ Yield(t)) /\ UNCHANGED notQ
TaskFinish == (\E t \in Tasks : pc[t] = "body" /\ Finish(t)) /\ UNCHANGED notQ

Init ==
    /\ QInit
    /\ pc = [t \in Tasks |-> "unborn"]
    /\ count = 0
    /\ CbInit
    /\ cb_count = 0
    /\ IoInit
    /\ TwInit
    /\ LpInit
    /\ ElInit
    /\ GnInit
    /\ SvInit

Next ==
    \/ TaskNew
    \/ Start
    \/ Iter
    \/ Return
    \/ TaskPut
    \/ TaskClose
    \/ TaskGet
    \/ TaskSleep
    \/ TaskYield
    \/ TaskFinish
    \/ Clock

Spec == Init /\ [][Next]_vars

\* ---- producer(q, count) and consumer(q) on one queue: specification SpecPC
PCNew ==
    /\ CbUntouched
    /\ \E t \in 1..2, b \in {"p_loop", "c_get"} :
          /\ \A u \in Tasks : pc[u] # b
          /\ NewTask(t, b)
    /\ UNCHANGED notQ
PCStart == (\A t \in 1..2 : pc[t] # "unborn") /\ RunStart /\ UNCHANGED notQ
ProducerPut ==
    /\ \E t \in Tasks : pc[t] = "p_loop" /\ nput < count /\ Put(t)
    /\ UNCHANGED notQ
ProducerSleep ==
    /\ \E t \in Tasks : pc[t] = "p_sleep" /\ Sleep(t, SleepDelay)
    /\ UNCHANGED notQ
ProducerClose ==
    /\ \E t \in Tasks : pc[t] = "p_loop" /\ ~(nput < count) /\ Close(t)
    /\ UNCHANGED notQ
ProducerFinish ==
    /\ \E t \in Tasks : pc[t] = "p_end" /\ Finish(t)
    /\ UNCHANGED notQ
ConsumerGet ==
    /\ \E t \in Tasks : pc[t] = "c_get" /\ Get(t)
    /\ UNCHANGED notQ
ConsumerFinish ==
    /\ \E t \in Tasks : pc[t] = "c_end" /\ Finish(t)
    /\ UNCHANGED notQ

\* ---- sleep and get called while run() steps no coroutine: by the main
\* program before run() or after it has returned, sending once to the
\* coroutine object.  Scheduler.current is what the last step left in it.
\* sched.sleep(delay), lines 23-33
OutsideSleep(delay) ==
    /\ runst \in {"idle", "returned"}
    /\ running = None
    /\ IF current = None
       THEN /\ ev' = Ev("sleep", None, "RuntimeError")
            /\ UNCHANGED <<sleeping, current, sequence>>
       ELSE /\ sequence' = sequence + 1
            /\ sleeping' = HeapPush(TRUE, sleeping,
                                    <<now + delay, sequence + 1, current>>)
            /\ current' = None
            /\ ev' = Ev("sleep", None, "ok")
    /\ UNCHANGED <<ready, items, waiting, closed, now, running, runst, pc,
                   inget, count, nput, gotlog, woke>>

\* q.get(), lines 114-133
OutsideGet ==
    /\ runst \in {"idle", "returned"}
    /\ running = None
    /\ LET out == GetOutcome(items, closed, current)
       IN /\ ev' = Ev("get", None, out)
          /\ items' = IF out = "item" THEN Tail(items) ELSE items
          /\ gotlog' = IF out = "item" THEN Append(gotlog, Head(items))
                       ELSE gotlog
          /\ waiting' = IF out = "wait" THEN Append(waiting, current)
                        ELSE waiting
          /\ current' = IF out = "wait" THEN None ELSE current
    /\ UNCHANGED <<ready, sleeping, sequence, closed, now, running, runst, pc,
                   inget, count, nput, woke>>

MainSleep ==
    /\ \E d \in {0, SleepDelay} :
          now + d <= MaxTime /\ sequence < MaxSeq /\ OutsideSleep(d)
    /\ UNCHANGED notQ
MainGet == OutsideGet /\ UNCHANGED notQ

NextOut ==
    \/ Next
    \/ MainSleep
    \/ MainGet

SpecOut == Init /\ [][NextOut]_vars

\* ---- async_producer.py: the queue without close.  Its Scheduler is the
\* one above (run, sleep, new_task are the same code); put and get differ.
\* AsyncQueue.put(item) by the running coroutine t, lines 81-85
SqPut(t) ==
    /\ running = t
    /\ items' = PutItems(items, nput)
    /\ nput' = nput + 1
    /\ ready' = ready \o PutWakes(waiting)
    /\ waiting' = SubSeq(waiting, Len(PutWakes(waiting)) + 1, Len(waiting))
    /\ woke' = MarkWoke(woke, PutWakes(waiting), "put", nput)
    /\ ev' = Ev("put", t, "ok")
    /\ UNCHANGED <<sleeping, current, sequence, closed, now, running, runst,
                   pc, inget, count, gotlog>>

\* "await q.get()" by the running coroutine t up to its await or its return,
\* lines 87-99: "if not self.items" is tested once
SqGet(t) ==
    /\ running = t
    /\ IF current = None
       THEN \* "if not sched.current: return"
            /\ ev' = Ev("get", t, "none")
            /\ UNCHANGED <<ready, sleeping, current, sequence, items, waiting,
                           closed, now, running, runst, pc, inget, count,
                           nput, gotlog, woke>>
       ELSE IF items = <<>>
       THEN /\ waiting' = Append(waiting, current)
            /\ current' = None
            /\ running' = None
            /\ inget' = [inget EXCEPT ![t] = TRUE]
            /\ ev' = Ev("get", t, "wait")
            /\ UNCHANGED <<ready, sleeping, sequence, items, closed, now,
                           runst, pc, count, nput, gotlog, woke>>
       ELSE /\ items' = Tail(items)
            /\ gotlog' = Append(gotlog, Head(items))
            /\ ev' = Ev("get", t, "item")
            /\ UNCHANGED <<ready, sleeping, current, sequence, waiting,
                           closed, now, running, runst, pc, inget, count,
                           nput, woke>>

\* One iteration of Scheduler.run up to and including send(None), lines
\* 34-53.  A coroutine suspended in get resumes behind its await, at
\* "return self.items.popleft()" (line 99), which raises IndexError on an
\* empty deque; the exception leaves send() and run()
SqRunIter ==
    /\ runst = "run"
    /\ running = None
    /\ RunContinues(ready, sleeping)
    /\ LET idle == ready = <<>>
           ent == HeapTop(sleeping)
           rdy == IF idle THEN <<ent[3]>> ELSE ready
           t == Head(rdy)
       IN /\ sleeping' = IF idle THEN HeapPop(TRUE, sleeping) ELSE sleeping
          /\ now' = IF idle THEN Max(now, ent[1]) ELSE now
          /\ ready' = Tail(rdy)
          /\ current' = t
          /\ woke' = [woke EXCEPT ![t] = NoWoke]
          /\ inget' = [inget EXCEPT ![t] = FALSE]
          /\ IF ~inget[t]
             THEN /\ running' = t
                  /\ ev' = Ev("resume", t, "ok")
                  /\ UNCHANGED <<items, gotlog, runst, pc>>
             ELSE IF items # <<>>
             THEN /\ running' = t
                  /\ items' = Tail(items)
                  /\ gotlog' = Append(gotlog, Head(items))
                  /\ ev' = Ev("reget", t, "item")
                  /\ UNCHANGED <<runst, pc>>
             ELSE /\ running' = None
                  /\ runst' = "raised"
                  /\ pc' = [pc EXCEPT ![t] = "done"]
                  /\ ev' = Ev("reget", t, "IndexError")
                  /\ UNCHANGED <<items, gotlog>>
    /\ UNCHANGED <<sequence, waiting, closed, count, nput>>

\* ---- arbitrary coroutines on one queue without close: specification SpecSq
SqIter == SqRunIter /\ UNCHANGED notQ
SqTaskPut ==
    /\ \E t \in Tasks : pc[t] = "body" /\ nput < MaxPuts /\ SqPut(t)
    /\ UNCHANGED notQ
SqTaskGet == (\E t \in Tasks : pc[t] = "body" /\ SqGet(t)) /\ UNCHANGED notQ

NextSq ==
    \/ TaskNew
    \/ Start
    \/ SqIter
    \/ Return
    \/ SqTaskPut
    \/ SqTaskGet
    \/ TaskSleep
    \/ TaskYield
    \/ TaskFinish
    \/ Clock

SpecSq == Init /\ [][NextSq]_vars

\* the same with get called by coroutine 1 only
SqOneGet == (pc[1] = "body" /\ SqGet(1)) /\ UNCHANGED notQ
NextSqOne ==
    \/ TaskNew
    \/ Start
    \/ SqIter
    \/ Return
    \/ SqTaskPut
    \/ SqOneGet
    \/ TaskSleep
    \/ TaskYield
    \/ TaskFinish
    \/ Clock

SpecSqOne == Init /\ [][NextSqOne]_vars

\* ================================================================= Part C
\* async_cb_producer_close.py
Fn(t) == <<"fn", t>>
GetFn(t) == <<"get", t>>

\* AsyncQueue.close: the functions close passes to call_soon
CbCloseWakes(w, its) == IF w # <<>> /\ its = <<>> THEN w ELSE <<>>
\* AsyncQueue.close: waiting after close, which only iterates over it
CbCloseLeaves(w, its) == w
\* AsyncQueue.put: the closed check
CbPutFails(c) == c
\* AsyncQueue.put: items.append(item)
CbPutItems(its, x) == Append(its, x)
\* AsyncQueue.put: the function put takes off waiting and passes to call_soon
CbPutWakes(w) == IF w # <<>> THEN <<Head(w)>> ELSE <<>>
\* AsyncQueue.get: its three branches
CbGetOutcome(its, c) ==
    IF its # <<>> THEN "item"
    ELSE IF c THEN "QueueClosed"
    ELSE "wait"
\* Scheduler.run: "while self.ready or self.sleeping"
CbRunContinues(r, s) == r # <<>> \/ s # <<>>

\* where producer._run and consumer._run continue after an operation
CbAfterPut(p) == IF p = "p_start" THEN "p_later" ELSE p
CbAfterLater(p) == IF p = "p_later" THEN "end" ELSE p
CbAfterClose(p) == IF p = "p_start" THEN "end" ELSE p
CbAfterItem(p) == IF p = "c_start" THEN "c_soon" ELSE p
CbAfterClosed(p) == IF p = "c_start" THEN "end" ELSE p
CbAfterWait(p) == IF p = "c_start" THEN "end" ELSE p
CbAfterSoon(p) == IF p = "c_soon" THEN "end" ELSE p
CbStart(b) ==
    IF b = "producer" THEN "p_start"
    ELSE IF b = "consumer" THEN "c_start"
    ELSE "body"

\* sched.call_soon(function of chain t) before run()
CbNew(t, body) ==
    /\ cb_runst = "idle"
    /\ cb_body[t] = "unborn"
    /\ \A u \in Chains : u < t => cb_body[u] # "unborn"
    /\ cb_ready' = Append(cb_ready, Fn(t))
    /\ cb_body' = [cb_body EXCEPT ![t] = body]
    /\ cb_ev' = Ev("call_soon", t, "ok")
    /\ UNCHANGED <<cb_sleeping, cb_sequence, cb_items, cb_waiting, cb_closed,
                   cb_now, cb_running, cb_pos, cb_runst, cb_inget, cb_count,
                   cb_nput, cb_gotlog, cb_nclosed>>

\* sched.run() is called
CbRunStart ==
    /\ cb_runst = "idle"
    /\ cb_runst' = "run"
    /\ cb_ev' = Ev("run", None, "ok")
    /\ UNCHANGED <<cb_ready, cb_sleeping, cb_sequence, cb_items, cb_waiting,
                   cb_closed, cb_now, cb_running, cb_pos, cb_body, cb_inget,
                   cb_count, cb_nput, cb_gotlog, cb_nclosed>>

\* AsyncQueue.get(callback) for chain t; called by the closure on waiting
\* (op = "reget") or by a running function (op = "get").  With an item or on
\* a closed queue the callback is called at once and the chain goes on
\* inside it.
CbGetCall(op, t, rdy) ==
    LET out == CbGetOutcome(cb_items, cb_closed)
    IN /\ cb_ready' = rdy
       /\ cb_ev' = Ev(op, t, out)
       /\ IF out = "item"
          THEN /\ cb_items' = Tail(cb_items)
               /\ cb_gotlog' = Append(cb_gotlog, Head(cb_items))
               /\ cb_waiting' = cb_waiting
               /\ cb_nclosed' = cb_nclosed
               /\ cb_inget' = [cb_inget EXCEPT ![t] = FALSE]
               /\ cb_running' = t
               /\ cb_pos' = CbAfterItem(CbStart(cb_body[t]))
          ELSE IF out = "QueueClosed"
          THEN /\ cb_inget' = [cb_inget EXCEPT ![t] = FALSE]
               /\ cb_running' = t
               /\ cb_pos' = CbAfterClosed(CbStart(cb_body[t]))
               /\ cb_nclosed' = IF cb_nclosed < MaxClosedSeen
                                THEN cb_nclosed + 1 ELSE cb_nclosed
               /\ UNCHANGED <<cb_items, cb_gotlog, cb_waiting>>
          ELSE /\ cb_waiting' = Append(cb_waiting, GetFn(t))
               /\ cb_inget' = [cb_inget EXCEPT ![t] = TRUE]
               \* the closure on waiting returns after get; a function that
               \* called get goes on
               /\ cb_running' = IF op = "reget" THEN None ELSE t
               /\ cb_pos' = IF op = "reget" THEN "none"
                            ELSE CbAfterWait(cb_pos)
               /\ UNCHANGED <<cb_items, cb_gotlog, cb_nclosed>>

\* Scheduler.run up to the call func(): with ready empty the function with
\* the nearest deadline is taken off the heap and appended to ready; then the
\* inner loop pops the next function and calls it
CbRunIter ==
    /\ cb_runst = "run"
    /\ cb_running = None
    /\ CbRunContinues(cb_ready, cb_sleeping)
    /\ LET idle == cb_ready = <<>>
           ent == HeapTop(cb_sleeping)
           rdy == IF idle THEN <<ent[3]>> ELSE cb_ready
           f == Head(rdy)
       IN /\ cb_sleeping' = IF idle THEN HeapPop(TRUE, cb_sleeping)
                            ELSE cb_sleeping
          /\ cb_now' = IF idle THEN Max(cb_now, ent[1]) ELSE cb_now
          /\ IF f[1] = "get"
             THEN CbGetCall("reget", f[2], Tail(rdy))
             ELSE /\ cb_ready' = Tail(rdy)
                  /\ cb_running' = f[2]
                  /\ cb_pos' = CbStart(cb_body[f[2]])
                  /\ cb_ev' = Ev("call", f[2], "ok")
                  /\ UNCHANGED <<cb_items, cb_waiting, cb_inget, cb_gotlog,
                                 cb_nclosed>>
          /\ UNCHANGED <<cb_sequence, cb_closed, cb_runst, cb_body, cb_count,
                         cb_nput>>

\* run() leaves its while loop
CbRunReturn ==
    /\ cb_runst = "run"
    /\ cb_running = None
    /\ ~CbRunContinues(cb_ready, cb_sleeping)
    /\ cb_runst' = "returned"
    /\ cb_ev' = Ev("return", None, "ok")
    /\ UNCHANGED <<cb_ready, cb_sleeping, cb_sequence, cb_items, cb_waiting,
                   cb_closed, cb_now, cb_running, cb_pos, cb_body, cb_inget,
                   cb_count, cb_nput, cb_gotlog, cb_nclosed>>

\* AsyncQueue.put(item) by the running function of chain t; QueueClosed is
\* caught by the function or leaves func() and run()
CbPut(t, catches) ==
    /\ cb_running = t
    /\ IF CbPutFails(cb_closed)
       THEN /\ \E caught \in catches :
                 /\ cb_running' = IF caught THEN t ELSE None
                 /\ cb_pos' = IF caught THEN cb_pos ELSE "none"
                 /\ cb_runst' = IF caught THEN cb_runst ELSE "raised"
            /\ cb_ev' = Ev("put", t, "QueueClosed")
            /\ UNCHANGED <<cb_ready, cb_sleeping, cb_sequence, cb_items,
                           cb_waiting, cb_closed, cb_now, cb_body, cb_inget,
                           cb_count, cb_nput, cb_gotlog, cb_nclosed>>
       ELSE /\ cb_items' = CbPutItems(cb_items, cb_nput)
            /\ cb_nput' = cb_nput + 1
            /\ cb_ready' = cb_ready \o CbPutWakes(cb_waiting)
            /\ cb_waiting' = SubSeq(cb_waiting, Len(CbPutWakes(cb_waiting)) + 1,
                                    Len(cb_waiting))
            /\ cb_pos' = CbAfterPut(cb_pos)
            /\ cb_ev' = Ev("put", t, "ok")
            /\ UNCHANGED <<cb_sleeping, cb_sequence, cb_closed, cb_now,
                           cb_running, cb_runst, cb_body, cb_inget, cb_count,
                           cb_gotlog, cb_nclosed>>

\* AsyncQueue.close() by the running function of chain t
CbClose(t) ==
    /\ cb_running = t
    /\ cb_closed' = TRUE
    /\ cb_ready' = cb_ready \o CbCloseWakes(cb_waiting, cb_items)
    /\ cb_waiting' = CbCloseLeaves(cb_waiting, cb_items)
    /\ cb_pos' = CbAfterClose(cb_pos)
    /\ cb_ev' = Ev("close", t, "ok")
    /\ UNCHANGED <<cb_sleeping, cb_sequence, cb_items, cb_now, cb_running,
                   cb_runst, cb_body, cb_inget, cb_count, cb_nput, cb_gotlog,
                   cb_nclosed>>

\* q.get(callback) by the running function of chain t
CbGet(t) ==
    /\ cb_running = t
    /\ CbGetCall("get", t, cb_ready)
    /\ UNCHANGED <<cb_sleeping, cb_sequence, cb_closed, cb_now, cb_runst,
                   cb_body, cb_count, cb_nput>>

\* sched.call_soon(function of chain t) by the running function of chain t
CbCallSoon(t) ==
    /\ cb_running = t
    /\ cb_ready' = Append(cb_ready, Fn(t))
    /\ cb_pos' = CbAfterSoon(cb_pos)
    /\ cb_ev' = Ev("call_soon", t, "ok")
    /\ UNCHANGED <<cb_sleeping, cb_sequence, cb_items, cb_waiting, cb_closed,
                   cb_now, cb_running, cb_runst, cb_body, cb_inget, cb_count,
                   cb_nput, cb_gotlog, cb_nclosed>>

\* sched.call_later(delay, function of chain t) by the running function
CbCallLater(t, delay) ==
    /\ cb_running = t
    /\ cb_sequence' = cb_sequence + 1
    /\ cb_sleeping' = HeapPush(TRUE, cb_sleeping,
                               <<cb_now + delay, cb_sequence + 1, Fn(t)>>)
    /\ cb_pos' = CbAfterLater(cb_pos)
    /\ cb_ev' = Ev("call_later", t, "ok")
    /\ UNCHANGED <<cb_ready, cb_items, cb_waiting, cb_closed, cb_now,
                   cb_running, cb_runst, cb_body, cb_inget, cb_count, cb_nput,
                   cb_gotlog, cb_nclosed>>

\* the running function returns to run()
CbReturn(t) ==
    /\ cb_running = t
    /\ cb_running' = None
    /\ cb_pos' = "none"
    /\ cb_ev' = Ev("end", t, "ok")
    /\ UNCHANGED <<cb_ready, cb_sleeping, cb_sequence, cb_items, cb_waiting,
                   cb_closed, cb_now, cb_runst, cb_body, cb_inget, cb_count,
                   cb_nput, cb_gotlog, cb_nclosed>>

\* the clock advances
CbTick ==
    /\ cb_runst = "run"
    /\ cb_now < MaxTime
    /\ cb_now' = cb_now + 1
    /\ cb_ev' = Ev("tick", None, "ok")
    /\ UNCHANGED <<cb_ready, cb_sleeping, cb_sequence, cb_items, cb_waiting,
                   cb_closed, cb_running, cb_pos, cb_runst, cb_body, cb_inget,
                   cb_count, cb_nput, cb_gotlog, cb_nclosed>>

\* ---- arbitrary callbacks on one queue: specification SpecCb.  A chain
\* has at most one function on ready and the heap and one get outstanding.
Scheduled(t) ==
    \/ InSeq(cb_ready, Fn(t))
    \/ \E i \in DOMAIN cb_sleeping : cb_sleeping[i][3] = Fn(t)
CbTaskNew == (\E t \in Chains : CbNew(t, "body")) /\ UNCHANGED notCb
CbStartRun == CbRunStart /\ UNCHANGED notCb
CbIter == CbRunIter /\ UNCHANGED notCb
CbFinish == CbRunReturn /\ UNCHANGED notCb
CbTaskPut ==
    /\ \E t \in Chains :
          /\ cb_pos = "body"
          /\ cb_closed \/ cb_nput < MaxPuts
          /\ CbPut(t, BOOLEAN)
    /\ UNCHANGED notCb
CbTaskClose ==
    /\ \E t \in Chains :
          /\ cb_pos = "body"
          /\ Len(cb_ready) + Len(CbCloseWakes(cb_waiting, cb_items)) <= MaxReady
          /\ CbClose(t)
    /\ UNCHANGED notCb
CbTaskGet ==
    /\ \E t \in Chains : cb_pos = "body" /\ ~cb_inget[t] /\ CbGet(t)
    /\ UNCHANGED notCb
CbTaskCallSoon ==
    /\ \E t \in Chains : cb_pos = "body" /\ ~Scheduled(t) /\ CbCallSoon(t)
    /\ UNCHANGED notCb
CbTaskCallLater ==
    /\ \E t \in Chains, d \in {0, SleepDelay} :
          /\ cb_pos = "body"
          /\ ~Scheduled(t)
          /\ cb_now + d <= MaxTime
          /\ cb_sequence < MaxSeq
          /\ CbCallLater(t, d)
    /\ UNCHANGED notCb
CbTaskReturn == (\E t \in Chains : cb_pos = "body" /\ CbReturn(t)) /\ UNCHANGED notCb
CbTime == CbTick /\ UNCHANGED notCb

QIdle ==
    /\ QInit
    /\ pc = [t \in Tasks |-> "unborn"]
    /\ count = 0

InitCb == CbInit /\ cb_count = 0 /\ QIdle /\ IoInit /\ TwInit /\ LpInit /\ ElInit /\ GnInit /\ SvInit

NextCb ==
    \/ CbTaskNew
    \/ CbStartRun
    \/ CbIter
    \/ CbFinish
    \/ CbTaskPut
    \/ CbTaskClose
    \/ CbTaskGet
    \/ CbTaskCallSoon
    \/ CbTaskCallLater
    \/ CbTaskReturn
    \/ CbTime

SpecCb == InitCb /\ [][NextCb]_vars

\* ---- producer(q, count) and consumer(q) on one queue, with coroutines
\* (async_producer_close.py) or with callbacks (async_cb_producer_close.py):
\* specification SpecPC; the first call of new_task or call_soon decides which
\* of the two programs is run
CbPCNew ==
    /\ QUntouched
    /\ \E t \in 1..2, b \in {"producer", "consumer"} :
          /\ \A u \in Chains : cb_body[u] # b
          /\ CbNew(t, b)
    /\ UNCHANGED notCb
CbPCStart ==
    /\ \A t \in 1..2 : cb_body[t] # "unborn"
    /\ CbRunStart
    /\ UNCHANGED notCb
CbClock == CbTick /\ UNCHANGED notCb
CbProducerPut ==
    /\ \E t \in Chains :
          /\ cb_pos = "p_start"
          /\ cb_nput < cb_count
          /\ CbPut(t, {FALSE})
    /\ UNCHANGED notCb
CbProducerLater ==
    /\ \E t \in Chains : cb_pos = "p_later" /\ CbCallLater(t, SleepDelay)
    /\ UNCHANGED notCb
CbProducerClose ==
    /\ \E t \in Chains :
          /\ cb_pos = "p_start"
          /\ ~(cb_nput < cb_count)
          /\ CbClose(t)
    /\ UNCHANGED notCb
CbConsumerGet ==
    /\ \E t \in Chains : cb_pos = "c_start" /\ CbGet(t)
    /\ UNCHANGED notCb
CbConsumerSoon ==
    /\ \E t \in Chains : cb_pos = "c_soon" /\ CbCallSoon(t)
    /\ UNCHANGED notCb
CbPCEnd ==
    /\ \E t \in Chains : cb_pos = "end" /\ CbReturn(t)
    /\ UNCHANGED notCb

InitPC ==
    /\ QInit
    /\ pc = [t \in Tasks |-> "unborn"]
    /\ count \in 0..MaxCount
    /\ CbInit
    /\ cb_count = count
    /\ IoInit
    /\ TwInit
    /\ LpInit
    /\ ElInit
    /\ GnInit
    /\ SvInit

NextPCQ ==
    \/ PCNew
    \/ PCStart
    \/ Iter
    \/ Return
    \/ Clock
    \/ ProducerPut
    \/ ProducerSleep
    \/ ProducerClose
    \/ ProducerFinish
    \/ ConsumerGet
    \/ ConsumerFinish

NextPCCb ==
    \/ CbPCNew
    \/ CbPCStart
    \/ CbIter
    \/ CbFinish
    \/ CbClock
    \/ CbProducerPut
    \/ CbProducerLater
    \/ CbProducerClose
    \/ CbConsumerGet
    \/ CbConsumerSoon
    \/ CbPCEnd

NextPC == NextPCQ \/ NextPCCb

SpecPC == InitPC /\ [][NextPC]_vars

\* the run loop and the code it runs always take their next step
FairSpecPC == SpecPC /\ WF_vars(NextPC)

\* ---- coroutines (async.py) and callbacks (async_sched.py) that complete on
\* their first step and schedule nothing, each program with its own
\* scheduler: specification SpecOnce.  run() is called and takes its steps,
\* and a function that was called returns.
NextOnce ==
    \/ TaskNew
    \/ Start
    \/ Iter
    \/ TaskFinish
    \/ Return
    \/ CbTaskNew
    \/ CbStartRun
    \/ CbIter
    \/ CbTaskReturn
    \/ CbFinish

SpecOnce == Init /\ [][NextOnce]_vars
FairSpecOnce ==
    /\ SpecOnce
    /\ WF_vars(Start) /\ WF_vars(Iter) /\ WF_vars(TaskFinish)
    /\ WF_vars(Return)
    /\ WF_vars(CbStartRun) /\ WF_vars(CbIter) /\ WF_vars(CbTaskReturn)
    /\ WF_vars(CbFinish)

\* ---- the same program on the coroutine queue (async_producer_close.py)
\* and on the callback queue (async_cb_producer_close.py), step for step:
\* specification SpecEq.  Task t of the one scheduler and chain t of the
\* other issue the same put, get and close requests; both run loops take
\* their next step together.  A coroutine that waits in get is suspended; the
\* function that called get(callback) returns.
EqNew(t) == NewTask(t, "body") /\ CbNew(t, "body")
EqStart == RunStart /\ CbRunStart
EqSched == (RunIter \/ RunReturn) /\ (CbRunIter \/ CbRunReturn)
EqActive(t) ==
    /\ running = t /\ pc[t] = "body"
    /\ cb_running = t /\ cb_pos = "body" /\ ~cb_inget[t]
EqPut(t) ==
    /\ EqActive(t)
    /\ closed \/ nput < MaxPuts
    /\ Put(t)
    /\ CbPut(t, BOOLEAN)
    \* the coroutine and the function handle QueueClosed alike
    /\ (running' = t) <=> (cb_running' = t)
EqClose(t) ==
    /\ EqActive(t)
    /\ Len(cb_ready) + Len(CbCloseWakes(cb_waiting, cb_items)) <= MaxReady
    /\ Close(t)
    /\ CbClose(t)
EqGet(t) ==
    /\ EqActive(t)
    /\ Get(t)
    /\ CbGet(t)
    \* a getter told QueueClosed goes on, as the callback does
    /\ runst' = "run"
EqWaitReturn(t) ==
    /\ inget[t] /\ running = None
    /\ cb_running = t /\ cb_inget[t]
    /\ CbReturn(t)
    /\ UNCHANGED qVars
EqFinish(t) == EqActive(t) /\ Finish(t) /\ CbReturn(t)

notQCb == <<ioVars, lpVars, elVars, gnVars, svVars, twVars>>
EqTaskNew == (\E t \in Chains : EqNew(t)) /\ UNCHANGED notQCb
EqRun == EqStart /\ UNCHANGED notQCb
EqIter == EqSched /\ runst' # "raised" /\ UNCHANGED notQCb
EqTaskPut == (\E t \in Chains : EqPut(t)) /\ UNCHANGED notQCb
EqTaskClose == (\E t \in Chains : EqClose(t)) /\ UNCHANGED notQCb
EqTaskGet == (\E t \in Chains : EqGet(t)) /\ UNCHANGED notQCb
EqTaskWaitReturn == (\E t \in Chains : EqWaitReturn(t)) /\ UNCHANGED notQCb
EqTaskFinish == (\E t \in Chains : EqFinish(t)) /\ UNCHANGED notQCb

NextEq ==
    \/ EqTaskNew
    \/ EqRun
    \/ EqIter
    \/ EqTaskPut
    \/ EqTaskClose
    \/ EqTaskGet
    \/ EqTaskWaitReturn
    \/ EqTaskFinish

SpecEq == Init /\ [][NextEq]_vars

\* the same, with no close() on a queue that is already closed
EqTaskCloseOnce ==
    (\E t \in Chains : ~closed /\ ~cb_closed /\ EqClose(t)) /\ UNCHANGED notQCb
NextEqOnce ==
    \/ EqTaskNew
    \/ EqRun
    \/ EqIter
    \/ EqTaskPut
    \/ EqTaskCloseOnce
    \/ EqTaskGet
    \/ EqTaskWaitReturn
    \/ EqTaskFinish

SpecEqOnce == Init /\ [][NextEqOnce]_vars

\* ================================================================= Part D
\* async_io.py
\* read_waiting[k] = v: a dict keeps the place of a key it already holds
DictSet(m, k, v) ==
    IF \E i \in DOMAIN m : m[i][1] = k
    THEN [i \in DOMAIN m |-> IF m[i][1] = k THEN <<k, v>> ELSE m[i]]
    ELSE Append(m, <<k, v>>)
Keys(m) == {m[i][1] : i \in DOMAIN m}
Values(m) == [i \in DOMAIN m |-> m[i][2]]
\* the entries of a waiter map whose key is in ks (in = TRUE) or is not
\* (in = FALSE), in dict order
RECURSIVE Keep(_, _, _)
Keep(m, ks, in) ==
    IF m = <<>> THEN <<>>
    ELSE (IF (Head(m)[1] \in ks) = in THEN <<Head(m)>> ELSE <<>>)
         \o Keep(Tail(m), ks, in)

\* the orders in which the elements of the set S can stand in a list
Orders(S) ==
    {q \in [1 .. Cardinality(S) -> S] :
        \A i, j \in 1 .. Cardinality(S) : i # j => q[i] # q[j]}
\* a select that returns the ready descriptors in any order
IoReportedAnyOrder(m, ks) == Orders(ks)
\* select.select(read_waiting, write_waiting, [], timeout) of line 93: the
\* lists it can return when the descriptors ks of the dict m are ready; it
\* goes through its argument in order, so there is one, in dict order
IoReported(m, ks) ==
    {[i \in DOMAIN Keep(m, ks, TRUE) |-> Keep(m, ks, TRUE)[i][1]]}
\* a run() whose loops go over the waiter map instead of select's list
IoLoopOverAll(fds, m) == [i \in DOMAIN m |-> m[i][1]]
\* "for fileno in can_read" and "for fileno in can_write", lines 95-98: the
\* descriptors the loop goes through
IoLoopOver(fds, m) == fds
\* the waiters m.pop(fileno) gives for the descriptors fds, in their order
IoPopped(m, fds) ==
    [i \in DOMAIN fds |->
        LET j == CHOOSE k \in DOMAIN m : m[k][1] = fds[i] IN m[j][2]]

\* select without a timeout
Forever == -1
\* a run() that polls: select with the timeout 0 whenever a timer is pending
IoTimeoutPoll(heap, n) == IF heap # <<>> THEN 0 ELSE Forever
\* a run() that always waits for ever in select
IoTimeoutForever(heap, n) == Forever
\* Scheduler.run: the timeout given to select
IoTimeout(heap, n) ==
    IF heap # <<>> THEN Max(HeapTop(heap)[1] - n, 0) ELSE Forever
\* a run() that takes every timer for due whenever select returns
IoDueAlways(n, deadline) == TRUE
\* Scheduler.run: "if now > self.sleeping[0][0]"
IoDue(n, deadline) == n > deadline
\* Scheduler.run: the entries its "while self.sleeping" loop pops with the
\* clock at n, and the heap it leaves
RECURSIVE DuePopped(_, _)
DuePopped(heap, n) ==
    IF heap # <<>> /\ IoDue(n, HeapTop(heap)[1])
    THEN <<HeapTop(heap)>> \o DuePopped(HeapPop(TRUE, heap), n)
    ELSE <<>>
RECURSIVE DueLeft(_, _)
DueLeft(heap, n) ==
    IF heap # <<>> /\ IoDue(n, HeapTop(heap)[1])
    THEN DueLeft(HeapPop(TRUE, heap), n)
    ELSE heap
\* a run() whose loop condition leaves out write_waiting
IoRunContinuesNoWrite(r, s, rw, ww) == r # <<>> \/ s # <<>> \/ rw # <<>>
\* Scheduler.run: the condition of its outer while loop
IoRunContinues(r, s, rw, ww) == r # <<>> \/ s # <<>> \/ rw # <<>> \/ ww # <<>>
\* a run() that calls select in every iteration of its outer loop
IoMultiplexesAlways(r) == TRUE
\* Scheduler.run: "if not self.ready" before the select
IoMultiplexes(r) == r = <<>>
\* a step that appends the running Task to ready whatever it registered
IoReappendAlways(cur) == TRUE
\* Task.__call__: "if sched.current: sched.ready.append(self)"
IoReappend(cur) == cur # None

\* an append that puts the new entry at the head of ready
IoAppendReadyFront(r, f) == <<f>> \o r
\* Scheduler.call_soon and Scheduler.new_task: self.ready.append
IoAppendReady(r, f) == Append(r, f)

\* sched.call_soon(func) or sched.new_task(coro) before run()
IoNew(f, kind) ==
    /\ io_runst = "idle"
    /\ io_kind[f] = "unborn"
    /\ \A g \in Funcs : g < f => io_kind[g] # "unborn"
    /\ io_ready' = IoAppendReady(io_ready, f)
    /\ io_kind' = [io_kind EXCEPT ![f] = kind]
    /\ io_ev' = Ev(IF kind = "task" THEN "new_task" ELSE "call_soon", f, "ok")
    /\ UNCHANGED <<io_sleeping, io_current, io_sequence, io_read, io_write,
                   io_now, io_running, io_runst, io_mark, io_last>>
    /\ UNCHANGED ioqVars
    /\ io_in' = In(IF kind = "task" THEN "new_task" ELSE "call_soon", {}, {}, 0, 0)

\* sched.run() is called
IoRunStart ==
    /\ io_runst = "idle"
    /\ io_runst' = "run"
    /\ io_ev' = Ev("run", None, "ok")
    /\ UNCHANGED <<io_ready, io_sleeping, io_current, io_sequence, io_read,
                   io_write, io_now, io_running, io_kind, io_mark, io_last>>
    /\ UNCHANGED ioqVars
    /\ io_in' = Req("run")

\* Scheduler.run with ready empty, lines 80-106: select is called with the
\* waiter maps and the timeout; it returns the sockets rs and ws, or none
\* once the timeout has passed; their waiters are appended to ready, and
\* then the timers that are due at the clock reading n
IoSelect ==
    /\ io_runst = "run"
    /\ io_running = None
    /\ IoMultiplexes(io_ready)
    /\ IoRunContinues(io_ready, io_sleeping, io_read, io_write)
    /\ LET timeout == IoTimeout(io_sleeping, io_now)
           late == IF timeout = Forever THEN io_now ELSE io_now + timeout
           readings == (io_now .. MaxTime) \cup
                       (IF timeout = Forever THEN {} ELSE {late, late + 1})
       IN \E rs \in SUBSET Keys(io_read), ws \in SUBSET Keys(io_write),
             n \in readings :
            /\ rs \cup ws = {} => (timeout # Forever /\ n >= late)
            /\ \E can_read \in IoReported(io_read, rs),
                  can_write \in IoReported(io_write, ws) :
                 LET rd == IoLoopOver(can_read, io_read)
                     wr == IoLoopOver(can_write, io_write)
                     due == DuePopped(io_sleeping, n)
                 IN /\ io_ready' = io_ready
                                   \o IoPopped(io_read, rd)
                                   \o IoPopped(io_write, wr)
                                   \o [i \in DOMAIN due |-> due[i][3]]
                    /\ io_read' = Keep(io_read, {rd[i] : i \in DOMAIN rd},
                                       FALSE)
                    /\ io_write' = Keep(io_write, {wr[i] : i \in DOMAIN wr},
                                        FALSE)
                    /\ io_mark' = [f \in Funcs |->
                                     IF \E i \in DOMAIN due : due[i][3] = f
                                     THEN LET i == CHOOSE j \in DOMAIN due :
                                                       due[j][3] = f
                                          IN <<due[i][1], due[i][2]>>
                                     ELSE io_mark[f]]
            /\ io_sleeping' = DueLeft(io_sleeping, n)
            /\ io_now' = n
            /\ io_in' = In("step", rs, ws, n, 0)
            /\ io_ev' = Ev("select", None,
                           IF timeout = Forever THEN "forever" ELSE "timeout")
    /\ UNCHANGED <<io_current, io_sequence, io_running, io_runst, io_kind,
                   io_last>>
    /\ UNCHANGED ioqVars

\* Scheduler.run lines 108-111 up to the call func(): the next function is
\* popped and called; Task.__call__ sets sched.current and sends to its
\* coroutine, which raises RuntimeError if it has finished before
IoRunIter ==
    /\ io_runst = "run"
    /\ io_running = None
    /\ io_ready # <<>>
    /\ LET f == Head(io_ready)
           \* a Task suspended in AsyncQueue.get goes on at line 186,
           \* "return self.items.popleft()": IndexError with items empty
           pops == io_kind[f] = "task" /\ f \in io_inget
           fails == io_kind[f] = "done" \/ (pops /\ io_items = <<>>)
       IN /\ io_ready' = Tail(io_ready)
          /\ io_current' = IF io_kind[f] = "fn" THEN io_current ELSE f
          /\ io_running' = IF fails THEN None ELSE f
          /\ io_runst' = IF fails THEN "raised" ELSE io_runst
          /\ io_kind' = IF pops /\ io_items = <<>>
                        THEN [io_kind EXCEPT ![f] = "done"] ELSE io_kind
          /\ io_items' = IF pops /\ io_items # <<>> THEN Tail(io_items)
                         ELSE io_items
          /\ io_inget' = io_inget \ {f}
          /\ io_mark' = [io_mark EXCEPT ![f] = <<>>]
          /\ io_last' = IF io_mark[f] # <<>> THEN io_mark[f] ELSE io_last
          /\ io_ev' = Ev("call", f,
                         IF io_kind[f] = "done" THEN "RuntimeError"
                         ELSE IF pops /\ io_items = <<>> THEN "IndexError"
                         ELSE IF pops THEN "item"
                         ELSE IF io_mark[f] # <<>> THEN "timer" ELSE "ok")
    /\ UNCHANGED <<io_sleeping, io_sequence, io_read, io_write, io_now,
                   io_qwaiting, io_nput>>
    /\ io_in' = Req("step")

\* run() leaves its while loop
IoRunReturn ==
    /\ io_runst = "run"
    /\ io_running = None
    /\ ~IoRunContinues(io_ready, io_sleeping, io_read, io_write)
    /\ io_runst' = "returned"
    /\ io_ev' = Ev("return", None, "ok")
    /\ UNCHANGED <<io_ready, io_sleeping, io_current, io_sequence, io_read,
                   io_write, io_now, io_running, io_kind, io_mark, io_last>>
    /\ UNCHANGED ioqVars
    /\ io_in' = Req("step")

\* "await sched.sleep(delay)" by the running Task t: call_later with
\* sched.current, current = None, and the coroutine yields to Task.__call__
IoSleep(t, delay) ==
    /\ io_running = t
    /\ io_kind[t] = "task"
    /\ io_sequence' = io_sequence + 1
    /\ io_sleeping' = HeapPush(TRUE, io_sleeping,
                               <<io_now + delay, io_sequence + 1, io_current>>)
    /\ io_current' = None
    /\ io_ready' = IF IoReappend(None) THEN Append(io_ready, t) ELSE io_ready
    /\ io_running' = None
    /\ io_ev' = Ev("sleep", t, "ok")
    /\ UNCHANGED <<io_read, io_write, io_now, io_runst, io_kind, io_mark,
                   io_last>>
    /\ UNCHANGED ioqVars
    /\ io_in' = In("sleep", {}, {}, 0, delay)

\* "await sched.recv(sock, n)" or "await sched.accept(sock)" by the running
\* Task t: read_wait(sock, sched.current), current = None, yield
IoRecv(t, sock) ==
    /\ io_running = t
    /\ io_kind[t] = "task"
    /\ io_read' = DictSet(io_read, sock, io_current)
    /\ io_current' = None
    /\ io_ready' = IF IoReappend(None) THEN Append(io_ready, t) ELSE io_ready
    /\ io_running' = None
    /\ io_ev' = Ev("recv", t, "ok")
    /\ UNCHANGED <<io_sleeping, io_sequence, io_write, io_now, io_runst,
                   io_kind, io_mark, io_last>>
    /\ UNCHANGED ioqVars
    /\ io_in' = In("recv", {}, {}, 0, sock)

\* "await sched.send(sock, data)" by the running Task t
IoSend(t, sock) ==
    /\ io_running = t
    /\ io_kind[t] = "task"
    /\ io_write' = DictSet(io_write, sock, io_current)
    /\ io_current' = None
    /\ io_ready' = IF IoReappend(None) THEN Append(io_ready, t) ELSE io_ready
    /\ io_running' = None
    /\ io_ev' = Ev("send", t, "ok")
    /\ UNCHANGED <<io_sleeping, io_sequence, io_read, io_now, io_runst,
                   io_kind, io_mark, io_last>>
    /\ UNCHANGED ioqVars
    /\ io_in' = In("send", {}, {}, 0, sock)

\* "await Switch()" by the running Task t, which registered nothing
IoYield(t) ==
    /\ io_running = t
    /\ io_kind[t] = "task"
    /\ io_ready' = IF IoReappend(io_current) THEN Append(io_ready, t)
                   ELSE io_ready
    /\ io_running' = None
    /\ io_ev' = Ev("yield", t, "ok")
    /\ UNCHANGED <<io_sleeping, io_current, io_sequence, io_read, io_write,
                   io_now, io_runst, io_kind, io_mark, io_last>>
    /\ UNCHANGED ioqVars
    /\ io_in' = Req("yield")

\* the coroutine of the running Task t returns: StopIteration, "pass"
IoFinish(t) ==
    /\ io_running = t
    /\ io_kind[t] = "task"
    /\ io_kind' = [io_kind EXCEPT ![t] = "done"]
    /\ io_running' = None
    /\ io_ev' = Ev("finish", t, "ok")
    /\ UNCHANGED <<io_ready, io_sleeping, io_current, io_sequence, io_read,
                   io_write, io_now, io_runst, io_mark, io_last>>
    /\ UNCHANGED ioqVars
    /\ io_in' = Req("finish")

\* AsyncQueue.put(item) of async_io.py by the running function f
IoQPut(f) ==
    /\ io_running = f
    /\ io_items' = Append(io_items, io_nput)
    /\ io_nput' = io_nput + 1
    /\ io_ready' = IF io_qwaiting # <<>>
                   THEN Append(io_ready, Head(io_qwaiting)) ELSE io_ready
    /\ io_qwaiting' = IF io_qwaiting # <<>> THEN Tail(io_qwaiting)
                      ELSE io_qwaiting
    /\ io_ev' = Ev("qput", f, "ok")
    /\ UNCHANGED <<io_sleeping, io_current, io_sequence, io_read, io_write,
                   io_now, io_running, io_runst, io_kind, io_mark, io_last,
                   io_inget>>
    /\ io_in' = Req("qput")

\* "await q.get()" by the running Task t: with sched.current unset it
\* returns None at once; with an item it returns it; with items empty the
\* Task goes to q.waiting, current = None, and the coroutine yields
IoQGet(t) ==
    /\ io_running = t
    /\ io_kind[t] = "task"
    /\ LET out == IF io_current = None THEN "none"
                  ELSE IF io_items = <<>> THEN "wait" ELSE "item"
       IN /\ io_items' = IF out = "item" THEN Tail(io_items) ELSE io_items
          /\ io_qwaiting' = IF out = "wait" THEN Append(io_qwaiting, io_current)
                            ELSE io_qwaiting
          /\ io_current' = IF out = "wait" THEN None ELSE io_current
          /\ io_inget' = IF out = "wait" THEN io_inget \cup {t} ELSE io_inget
          /\ io_ready' = IF out = "wait" /\ IoReappend(None)
                         THEN Append(io_ready, t) ELSE io_ready
          /\ io_running' = IF out = "wait" THEN None ELSE t
          /\ io_ev' = Ev("qget", t, out)
    /\ UNCHANGED <<io_sleeping, io_sequence, io_read, io_write, io_now,
                   io_runst, io_kind, io_mark, io_last, io_nput>>
    /\ io_in' = Req("qget")

\* a Task.__call__ that lets no exception out
IoCatchesAll(exc) == FALSE
\* Task.__call__: "except StopIteration: pass", every other exception
\* leaves __call__
IoPropagates(exc) == exc # "StopIteration"

\* the coroutine of the running Task t raises an exception that is not
\* StopIteration: it leaves send(), Task.__call__, func() and run()
IoRaise(t) ==
    /\ io_running = t
    /\ io_kind[t] = "task"
    /\ io_kind' = [io_kind EXCEPT ![t] = "done"]
    /\ io_running' = None
    /\ io_runst' = IF IoPropagates("Error") THEN "raised" ELSE io_runst
    /\ io_ev' = Ev("raise", t, "Error")
    /\ UNCHANGED <<io_ready, io_sleeping, io_current, io_sequence, io_read,
                   io_write, io_now, io_mark, io_last>>
    /\ UNCHANGED ioqVars
    /\ io_in' = Req("raise")

\* sched.new_task(coro) by the running function f, for the new Task u
IoSpawn(f, u) ==
    /\ io_running = f
    /\ io_kind[u] = "unborn"
    /\ \A g \in Funcs : g < u => io_kind[g] # "unborn"
    /\ io_ready' = IoAppendReady(io_ready, u)
    /\ io_kind' = [io_kind EXCEPT ![u] = "task"]
    /\ io_ev' = Ev("new_task", u, "ok")
    /\ UNCHANGED <<io_sleeping, io_current, io_sequence, io_read, io_write,
                   io_now, io_running, io_runst, io_mark, io_last>>
    /\ UNCHANGED ioqVars
    /\ io_in' = Req("new_task")

\* sched.call_soon(f) by the running callback f
IoCallSoon(f) ==
    /\ io_running = f
    /\ io_kind[f] = "fn"
    /\ io_ready' = IoAppendReady(io_ready, f)
    /\ io_ev' = Ev("call_soon", f, "ok")
    /\ UNCHANGED <<io_sleeping, io_current, io_sequence, io_read, io_write,
                   io_now, io_running, io_runst, io_kind, io_mark, io_last>>
    /\ UNCHANGED ioqVars
    /\ io_in' = Req("call_soon")

\* sched.call_later(delay, f) by the running callback f
IoCallLater(f, delay) ==
    /\ io_running = f
    /\ io_kind[f] = "fn"
    /\ io_sequence' = io_sequence + 1
    /\ io_sleeping' = HeapPush(TRUE, io_sleeping,
                               <<io_now + delay, io_sequence + 1, f>>)
    /\ io_ev' = Ev("call_later", f, "ok")
    /\ UNCHANGED <<io_ready, io_current, io_read, io_write, io_now,
                   io_running, io_runst, io_kind, io_mark, io_last>>
    /\ UNCHANGED ioqVars
    /\ io_in' = In("call_later", {}, {}, 0, delay)

\* the running callback f returns to run()
IoFnReturn(f) ==
    /\ io_running = f
    /\ io_kind[f] = "fn"
    /\ io_running' = None
    /\ io_ev' = Ev("end", f, "ok")
    /\ UNCHANGED <<io_ready, io_sleeping, io_current, io_sequence, io_read,
                   io_write, io_now, io_runst, io_kind, io_mark, io_last>>
    /\ UNCHANGED ioqVars
    /\ io_in' = Req("end")

\* the clock advances
IoTick ==
    /\ io_runst = "run"
    /\ io_now < MaxTime
    /\ io_now' = io_now + 1
    /\ io_ev' = Ev("tick", None, "ok")
    /\ UNCHANGED <<io_ready, io_sleeping, io_current, io_sequence, io_read,
                   io_write, io_running, io_runst, io_kind, io_mark, io_last>>
    /\ UNCHANGED ioqVars
    /\ io_in' = Req("tick")

\* ---- arbitrary Tasks and callbacks: specification SpecIO.  A callback is
\* scheduled at most once at a time.
OnHeap(heap, f) == \E i \in DOMAIN heap : heap[i][3] = f
IoScheduled(f) == InSeq(io_ready, f) \/ OnHeap(io_sleeping, f)
\* the requests of arbitrary Tasks and callbacks, with their bounds
IoNews == \E f \in Funcs, k \in {"task", "fn"} : IoNew(f, k)
IoSleeps ==
    \E t \in Funcs, d \in {0, SleepDelay} :
        io_sequence < MaxIoSeq /\ IoSleep(t, d)
IoRecvs == \E t \in Funcs, k \in Socks : IoRecv(t, k)
IoSends == \E t \in Funcs, k \in Socks : IoSend(t, k)
IoYields == \E t \in Funcs : IoYield(t)
IoFinishes == \E t \in Funcs : IoFinish(t)
IoSpawns == \E f, u \in Funcs : IoSpawn(f, u)
IoRaises == \E t \in Funcs : IoRaise(t)
IoSoons == \E f \in Funcs : ~IoScheduled(f) /\ IoCallSoon(f)
IoLaters ==
    \E f \in Funcs, d \in {0, SleepDelay} :
        /\ ~IoScheduled(f)
        /\ io_sequence < MaxIoSeq
        /\ IoCallLater(f, d)
IoFnReturns == \E f \in Funcs : IoFnReturn(f)
IoQPuts == \E f \in Funcs : io_nput < MaxIoPuts /\ IoQPut(f)
IoQGets == \E t \in Funcs : IoQGet(t)

IoTaskNew == IoNews /\ UNCHANGED notIo
IoStart == IoRunStart /\ UNCHANGED notIo
IoWait == IoSelect /\ UNCHANGED notIo
IoIter == IoRunIter /\ UNCHANGED notIo
IoReturn == IoRunReturn /\ UNCHANGED notIo
IoClock == IoTick /\ UNCHANGED notIo
IoTaskSleep == IoSleeps /\ UNCHANGED notIo
IoTaskRecv == IoRecvs /\ UNCHANGED notIo
IoTaskSend == IoSends /\ UNCHANGED notIo
IoTaskYield == IoYields /\ UNCHANGED notIo
IoTaskFinish == IoFinishes /\ UNCHANGED notIo
IoTaskSpawn == IoSpawns /\ UNCHANGED notIo
IoTaskRaise == IoRaises /\ UNCHANGED notIo
IoFnSoon == IoSoons /\ UNCHANGED notIo
IoFnLater == IoLaters /\ UNCHANGED notIo
IoFnEnd == IoFnReturns /\ UNCHANGED notIo
IoQueuePut == IoQPuts /\ UNCHANGED notIo
IoQueueGet == IoQGets /\ UNCHANGED notIo

InitIO == IoInit /\ TwInit /\ QIdle /\ CbInit /\ cb_count = 0 /\ LpInit /\ ElInit /\ GnInit /\ SvInit

NextIO ==
    \/ IoTaskNew
    \/ IoStart
    \/ IoWait
    \/ IoIter
    \/ IoReturn
    \/ IoClock
    \/ IoTaskSleep
    \/ IoTaskRecv
    \/ IoTaskSend
    \/ IoTaskYield
    \/ IoTaskFinish
    \/ IoTaskSpawn
    \/ IoTaskRaise
    \/ IoFnSoon
    \/ IoFnLater
    \/ IoFnEnd
    \/ IoQueuePut
    \/ IoQueueGet

SpecIO == InitIO /\ [][NextIO]_vars

\* ---- SpecIO with the scheduling the code gives: run() is called and takes
\* each next step of its loops, select returns when it may, a function that
\* was called gives control back, and the clock advances
IoStepEnds ==
    \/ IoTaskSleep
    \/ IoTaskRecv
    \/ IoTaskSend
    \/ IoTaskYield
    \/ IoTaskFinish
    \/ IoTaskRaise
    \/ IoFnEnd
    \/ (IoQueueGet /\ io_running' = None)
FairSpecIO ==
    /\ SpecIO
    /\ WF_vars(IoStart)
    /\ WF_vars(IoWait)
    /\ WF_vars(IoIter)
    /\ WF_vars(IoReturn)
    /\ WF_vars(IoStepEnds)
    /\ WF_vars(IoClock)

\* ---- two runs on the same inputs: specification SpecTwin.  Both runs are
\* in the same state.  The first run takes any step of SpecIO (TwLead); its
\* outcome is kept and the state before the step put back (TwRewind); the
\* second run takes any step of SpecIO that gets the same input, that is
\* the same request of the program, or the same report and clock reading of
\* select (TwFollow); the two outcomes stand side by side (phase
\* "compare"), and the runs go on from there (TwOn).
IoFull ==
    [ready |-> io_ready, sleeping |-> io_sleeping, current |-> io_current,
     sequence |-> io_sequence, read |-> io_read, write |-> io_write,
     now |-> io_now, running |-> io_running, runst |-> io_runst,
     kind |-> io_kind, mark |-> io_mark, last |-> io_last,
     items |-> io_items, qwaiting |-> io_qwaiting, inget |-> io_inget,
     nput |-> io_nput, in |-> io_in, ev |-> io_ev]
IoAny ==
    \/ IoNews
    \/ IoRunStart
    \/ IoSelect
    \/ IoRunIter
    \/ IoRunReturn
    \/ IoTick
    \/ IoSleeps
    \/ IoRecvs
    \/ IoSends
    \/ IoYields
    \/ IoFinishes
    \/ IoSpawns
    \/ IoRaises
    \/ IoSoons
    \/ IoLaters
    \/ IoFnReturns
    \/ IoQPuts
    \/ IoQGets
TwLead ==
    /\ tw_phase = "lead"
    /\ IoAny
    /\ tw_saved' = IoFull
    /\ tw_phase' = "rewind"
    /\ UNCHANGED <<tw_first, notIoTw>>
TwRewind ==
    /\ tw_phase = "rewind"
    /\ tw_first' = IoFull
    /\ io_ready' = tw_saved.ready
    /\ io_sleeping' = tw_saved.sleeping
    /\ io_current' = tw_saved.current
    /\ io_sequence' = tw_saved.sequence
    /\ io_read' = tw_saved.read
    /\ io_write' = tw_saved.write
    /\ io_now' = tw_saved.now
    /\ io_running' = tw_saved.running
    /\ io_runst' = tw_saved.runst
    /\ io_kind' = tw_saved.kind
    /\ io_mark' = tw_saved.mark
    /\ io_last' = tw_saved.last
    /\ io_items' = tw_saved.items
    /\ io_qwaiting' = tw_saved.qwaiting
    /\ io_inget' = tw_saved.inget
    /\ io_nput' = tw_saved.nput
    /\ io_in' = tw_saved.in
    /\ io_ev' = tw_saved.ev
    /\ tw_phase' = "follow"
    /\ UNCHANGED <<tw_saved, notIoTw>>
TwFollow ==
    /\ tw_phase = "follow"
    /\ IoAny
    /\ io_in' = tw_first.in
    /\ tw_phase' = "compare"
    /\ UNCHANGED <<tw_saved, tw_first, notIoTw>>
TwOn ==
    /\ tw_phase = "compare"
    /\ tw_phase' = "lead"
    /\ tw_saved' = <<>>
    /\ tw_first' = <<>>
    /\ UNCHANGED <<ioVars, notIoTw>>

NextTwin ==
    \/ TwLead
    \/ TwRewind
    \/ TwFollow
    \/ TwOn

SpecTwin == InitIO /\ [][NextTwin]_vars

\* ================================================================= Part E
\* loop.py.  Task.__lt__ compares wait_until alone: the heap operations are
\* those of Part A with bySeq = FALSE.

\* run_until_complete, one pass of its for loop: coro.send(None) runs the
\* next coroutine up to its first sleep(seconds), which reads the clock (n)
\* and yields n + seconds, and the Task is pushed; a coroutine that returns
\* without sleeping raises StopIteration out of run_until_complete
LpStart(c, sleeps, n, seconds) ==
    /\ lp_phase = "start"
    /\ lp_next = c
    /\ lp_now' = n
    /\ lp_next' = c + 1
    /\ IF sleeps
       THEN /\ lp_waiting' = HeapPush(FALSE, lp_waiting,
                                      <<n + seconds, lp_pushes + 1, c>>)
            /\ lp_pushes' = lp_pushes + 1
            /\ lp_phase' = lp_phase
            /\ lp_called' = [lp_called EXCEPT ![c] = <<n, seconds>>]
            /\ lp_ev' = Ev("start", c, "sleep")
       ELSE /\ lp_phase' = "raised"
            /\ lp_ev' = Ev("start", c, "StopIteration")
            /\ UNCHANGED <<lp_waiting, lp_pushes, lp_called>>
    /\ UNCHANGED <<lp_sleeps, lp_last, lp_slept>>

\* the for loop has started every coroutine of _new
LpStarted ==
    /\ lp_phase = "start"
    /\ lp_phase' = "loop"
    /\ lp_ev' = Ev("started", None, "ok")
    /\ UNCHANGED <<lp_waiting, lp_now, lp_next, lp_sleeps, lp_pushes, lp_last,
                   lp_called, lp_slept>>

\* sleep(seconds): "return actual - before", where actual is the value sent
\* in and before the clock reading at the call
LpSleepReturns(actual, before) == actual - before

\* a run_until_complete that resumes the Task without waiting
LpAfterNoWait(before, wait_until) == {before}
\* run_until_complete: the clock reading sent to the coroutine, given the
\* reading before and the Task's wait_until; time.sleep returns at or after
\* wait_until
LpAfter(before, wait_until) ==
    IF before < wait_until THEN {wait_until, wait_until + 1} ELSE {before}

\* run_until_complete, one pass of its while loop: the Task with the
\* smallest wait_until is popped, the loop sleeps until then, and the
\* coroutine is resumed; it sleeps again (reading the clock at n) and is
\* pushed, or it returns
LpResume(before, after, sleeps, n, seconds) ==
    /\ lp_phase = "loop"
    /\ lp_waiting # <<>>
    /\ LET task == HeapTop(lp_waiting)
           c == task[3]
           rest == HeapPop(FALSE, lp_waiting)
       IN /\ after \in LpAfter(before, task[1])
          /\ n >= after
          /\ lp_last' = <<task[1], task[2]>>
          /\ lp_now' = n
          \* task.coro.send(after): sleep returns actual - before
          /\ lp_slept' = [c |-> c, sent |-> <<after>>,
                          seconds |-> lp_called[c][2],
                          returned |-> LpSleepReturns(after, lp_called[c][1])]
          /\ IF sleeps
             THEN /\ lp_sleeps[c] < MaxSleeps
                  /\ lp_waiting' = HeapPush(FALSE, rest,
                                            <<n + seconds, lp_pushes + 1, c>>)
                  /\ lp_pushes' = lp_pushes + 1
                  /\ lp_sleeps' = [lp_sleeps EXCEPT ![c] = @ + 1]
                  /\ lp_called' = [lp_called EXCEPT ![c] = <<n, seconds>>]
                  /\ lp_ev' = Ev("resume", c, "sleep")
             ELSE /\ lp_waiting' = rest
                  /\ lp_called' = [lp_called EXCEPT ![c] = <<0, 0>>]
                  /\ lp_ev' = Ev("resume", c, "done")
                  /\ UNCHANGED <<lp_pushes, lp_sleeps>>
    /\ UNCHANGED <<lp_phase, lp_next>>

\* run_until_complete leaves its while loop
LpReturn ==
    /\ lp_phase = "loop"
    /\ lp_waiting = <<>>
    /\ lp_phase' = "returned"
    /\ lp_ev' = Ev("return", None, "ok")
    /\ UNCHANGED <<lp_waiting, lp_now, lp_next, lp_sleeps, lp_pushes, lp_last,
                   lp_called, lp_slept>>

\* ---- arbitrary coroutines that sleep: specification SpecLoop
LoopStart ==
    /\ \E c \in Coros, sleeps \in BOOLEAN, n \in lp_now .. MaxTime,
          seconds \in {0, SleepDelay} :
          /\ ~sleeps => seconds = 0
          /\ LpStart(c, sleeps, n, seconds)
    /\ UNCHANGED notLp
LoopStarted == LpStarted /\ UNCHANGED notLp
LoopResume ==
    /\ \E before \in lp_now .. Max(lp_now, MaxTime),
          after \in lp_now .. Max(lp_now, MaxTime) + SleepDelay + 1,
          sleeps \in BOOLEAN, seconds \in {0, SleepDelay} :
          /\ ~sleeps => seconds = 0
          /\ \E n \in {after} \cup (after .. MaxTime) :
                LpResume(before, after, sleeps, n, seconds)
    /\ UNCHANGED notLp
LoopReturn == LpReturn /\ UNCHANGED notLp

InitLoop == LpInit /\ QIdle /\ CbInit /\ cb_count = 0 /\ IoInit /\ TwInit /\ ElInit /\ GnInit /\ SvInit

NextLoop ==
    \/ LoopStart
    \/ LoopStarted
    \/ LoopResume
    \/ LoopReturn

SpecLoop == InitLoop /\ [][NextLoop]_vars

\* ---- SleepingLoop given at most NNappers coroutines: specification SpecNap
NapStart == lp_next <= NNappers /\ LoopStart
NextNap ==
    \/ NapStart
    \/ LoopStarted
    \/ LoopResume
    \/ LoopReturn

SpecNap == InitLoop /\ [][NextNap]_vars

\* ================================================================= Part F
\* event_loop.py
\* waiting.sort(key=lambda item: item[0]) after waiting.append(e), waiting
\* being sorted: the sort is stable, e goes behind the entries whose until is
\* not larger
RECURSIVE SortedInsert(_, _)
SortedInsert(w, e) ==
    IF w = <<>> THEN <<e>>
    ELSE IF Head(w)[1] <= e[1] THEN <<Head(w)>> \o SortedInsert(Tail(w), e)
    ELSE <<e>> \o w
\* waiting.sort() after waiting.append(e), waiting being sorted by until:
\* the sort compares every entry with its neighbour and then e with the
\* entries it is inserted among; two tuples with one until are ordered by
\* their coroutines, which have no "<": TypeError
SortRaises(w, e) ==
    \/ \E i \in DOMAIN w : w[i][1] = e[1]
    \/ \E i \in 1 .. Len(w) - 1 : w[i][1] = w[i + 1][1]
\* waiting_read.pop(file)
DictPop(m, k) == Keep(m, {k}, FALSE)
\* select.select(waiting_read.keys(), [], [], to_wait) with the files rs
\* readable: the entries of the readable files, in the order of the keys
Readable(m, rs) == Keep(m, rs, TRUE)
\* what a step of run records
ElEv(op, t, res, by, until) ==
    [op |-> op, t |-> t, res |-> res, by |-> by, until |-> until]

\* run is called with the coroutines 1..n, lines 53-57
ElRun(n) ==
    /\ el_pc = "idle"
    /\ el_waiting' = [i \in 1..n |-> <<0, i>>]
    /\ el_kind' = [c \in ElCoros |-> IF c <= n THEN "live" ELSE "unborn"]
    /\ el_pc' = "loop"
    /\ el_ev' = ElEv("run", None, "ok", "none", 0)
    /\ UNCHANGED <<el_read, el_now>>

\* One iteration of run's while loop with waiting not empty, lines 59-90:
\* the first entry is popped, select returns the readable files rs or, when
\* the time to wait has passed, none; n is the reading of time.time() on line
\* 70; the coroutine that is sent to answers with the command cmd: "sleep"
\* until arg, "read" the file arg, or "stop" (it has finished)
ElIter(rs, n, cmd, arg) ==
    /\ el_pc = "loop"
    /\ el_waiting # <<>>
    /\ LET until == Head(el_waiting)[1]
           popped == Head(el_waiting)[2]
           rest == Tail(el_waiting)
           readable == Readable(el_read, rs)
           swap == n < until /\ readable # <<>>
           coroutine == IF swap THEN readable[1][2] ELSE popped
           w1 == IF swap THEN SortedInsert(rest, <<until, popped>>) ELSE rest
           r1 == IF swap THEN DictPop(el_read, readable[1][1]) ELSE el_read
       IN /\ rs = {} => n >= until
          /\ el_now' = n
          /\ IF swap /\ SortRaises(rest, <<until, popped>>)
             THEN /\ el_pc' = "raised"
                  /\ el_ev' = ElEv("sort", popped, "TypeError", "waiting", until)
                  \* the list as run leaves it: popped and appended
                  /\ el_waiting' = Append(rest, <<until, popped>>)
                  /\ UNCHANGED <<el_read, el_kind>>
             ELSE /\ el_pc' = el_pc
                  /\ el_ev' = ElEv("resume", coroutine, cmd,
                                   IF swap THEN "waiting_read" ELSE "waiting",
                                   IF swap THEN 0 ELSE until)
                  /\ el_waiting' = IF cmd = "sleep"
                                   THEN SortedInsert(w1, <<arg, coroutine>>)
                                   ELSE w1
                  /\ el_read' = IF cmd = "read"
                                THEN DictSet(r1, arg, coroutine)
                                ELSE r1
                  /\ el_kind' = IF cmd = "stop"
                                THEN [el_kind EXCEPT ![coroutine] = "done"]
                                ELSE el_kind

\* One iteration with waiting empty and waiting_read not, lines 59-64:
\* waiting.pop(0) raises IndexError and the loop continues without select
ElSpin ==
    /\ el_pc = "loop"
    /\ el_waiting = <<>>
    /\ el_read # <<>>
    /\ el_ev' = ElEv("spin", None, "IndexError", "none", 0)
    /\ UNCHANGED <<el_waiting, el_read, el_now, el_pc, el_kind>>

\* run leaves its while loop
ElReturn ==
    /\ el_pc = "loop"
    /\ el_waiting = <<>>
    /\ el_read = <<>>
    /\ el_pc' = "returned"
    /\ el_ev' = ElEv("return", None, "ok", "none", 0)
    /\ UNCHANGED <<el_waiting, el_read, el_now, el_kind>>

\* ---- arbitrary coroutines that sleep and read: specification SpecEL
ElStart == (\E n \in 0..NElCoros : ElRun(n)) /\ UNCHANGED notEl
ElStep ==
    /\ el_waiting # <<>>
    /\ \E rs \in SUBSET Keys(el_read),
          n \in (el_now .. MaxTime) \cup
                {Max(el_now, Head(el_waiting)[1])} :
          \/ \E u \in {n} \cup (IF n <= MaxTime THEN {n + SleepDelay}
                                ELSE {}) : ElIter(rs, n, "sleep", u)
          \/ \E f \in Files : ElIter(rs, n, "read", f)
          \/ ElIter(rs, n, "stop", None)
    /\ UNCHANGED notEl
ElBusy == ElSpin /\ UNCHANGED notEl
ElEnd == ElReturn /\ UNCHANGED notEl

InitEL == ElInit /\ QIdle /\ CbInit /\ cb_count = 0 /\ IoInit /\ TwInit /\ LpInit /\ GnInit /\ SvInit

NextEL ==
    \/ ElStart
    \/ ElStep
    \/ ElBusy
    \/ ElEnd

SpecEL == InitEL /\ [][NextEL]_vars

\* run's loop goes on as long as an iteration is possible, and the coroutines
\* are sent to whenever select returns
FairSpecEL ==
    SpecEL /\ WF_vars(ElStart) /\ WF_vars(ElStep) /\ WF_vars(ElBusy)
           /\ WF_vars(ElEnd)

\* ================================================================= Part G
\* async_gen.py
Range(s) == {s[i] : i \in DOMAIN s}
\* a new_task that puts the generator at the head of ready
GnAppendFront(r, g) == <<g>> \o r
\* Scheduler.new_task: self.ready.append(gen)
GnAppend(r, g) == Append(r, g)
\* a run() that drops the generator that yielded
GnReappendNever(cur) == FALSE
\* Scheduler.run: "if self.current: self.ready.append(self.current)"
GnReappend(cur) == cur # None
\* the generators in s have stepped
GnStepped(a, s) == [a EXCEPT !.left = a.left \ s]

\* sched.new_task(gen) for the new generator u, by the main program
\* (by = None) before run(), or by the generator `by` during its step
GnNewTask(by, u) ==
    /\ IF by = None THEN gn_runst = "idle" ELSE gn_running = by
    /\ gn_kind[u] = "unborn"
    /\ \A g \in Gens : g < u => gn_kind[g] # "unborn"
    /\ gn_ready' = GnAppend(gn_ready, u)
    /\ gn_kind' = [gn_kind EXCEPT ![u] = "live"]
    /\ gn_ahead' = [gn_ahead EXCEPT ![u] =
                       [by |-> by, first |-> TRUE, were |-> Range(gn_ready),
                        left |-> Range(gn_ready)]]
    /\ gn_ev' = Ev("new_task", u, "ok")
    /\ UNCHANGED <<gn_current, gn_running, gn_runst>>

\* sched.run() is called
GnRunStart ==
    /\ gn_runst = "idle"
    /\ gn_runst' = "run"
    /\ gn_ev' = Ev("run", None, "ok")
    /\ UNCHANGED <<gn_ready, gn_current, gn_running, gn_kind, gn_ahead>>

\* Scheduler.run lines 20-24: the head of ready becomes current and next()
\* is called on it
GnRunIter ==
    /\ gn_runst = "run"
    /\ gn_running = None
    /\ gn_ready # <<>>
    /\ LET g == Head(gn_ready)
       IN /\ gn_ready' = Tail(gn_ready)
          /\ gn_current' = g
          /\ gn_running' = g
          /\ gn_ahead' = [h \in Gens |->
                            IF h = g THEN [gn_ahead[g] EXCEPT !.first = FALSE]
                            ELSE GnStepped(gn_ahead[h], {g})]
          /\ gn_ev' = Ev("step", g,
                         IF gn_ahead[g].first THEN "first" ELSE "again")
    /\ UNCHANGED <<gn_runst, gn_kind>>

\* the generator g yields: next() returns, lines 25-26
GnYield(g) ==
    /\ gn_running = g
    /\ gn_ready' = IF GnReappend(gn_current) THEN Append(gn_ready, gn_current)
                   ELSE gn_ready
    /\ gn_running' = None
    /\ gn_ahead' = [gn_ahead EXCEPT ![g] =
                       [by |-> g, first |-> FALSE, were |-> Range(gn_ready),
                        left |-> Range(gn_ready)]]
    /\ gn_ev' = Ev("yield", g, "ok")
    /\ UNCHANGED <<gn_current, gn_runst, gn_kind>>

\* the generator g returns: StopIteration, lines 27-28
GnFinish(g) ==
    /\ gn_running = g
    /\ gn_kind' = [gn_kind EXCEPT ![g] = "done"]
    /\ gn_running' = None
    /\ gn_ev' = Ev("finish", g, "ok")
    /\ UNCHANGED <<gn_ready, gn_current, gn_runst, gn_ahead>>

\* run() leaves its while loop
GnRunReturn ==
    /\ gn_runst = "run"
    /\ gn_running = None
    /\ gn_ready = <<>>
    /\ gn_runst' = "returned"
    /\ gn_ev' = Ev("return", None, "ok")
    /\ UNCHANGED <<gn_ready, gn_current, gn_running, gn_kind, gn_ahead>>

\* ---- arbitrary generators: specification SpecGen
GnNew == (\E u \in Gens : GnNewTask(None, u)) /\ UNCHANGED notGn
GnSpawn == (\E g, u \in Gens : GnNewTask(g, u)) /\ UNCHANGED notGn
GnStart == GnRunStart /\ UNCHANGED notGn
GnIter == GnRunIter /\ UNCHANGED notGn
GnTaskYield == (\E g \in Gens : GnYield(g)) /\ UNCHANGED notGn
GnTaskFinish == (\E g \in Gens : GnFinish(g)) /\ UNCHANGED notGn
GnReturn == GnRunReturn /\ UNCHANGED notGn

InitGen == GnInit /\ SvInit /\ QIdle /\ CbInit /\ cb_count = 0 /\ IoInit /\ TwInit /\ LpInit /\ ElInit

NextGen ==
    \/ GnNew
    \/ GnSpawn
    \/ GnStart
    \/ GnIter
    \/ GnTaskYield
    \/ GnTaskFinish
    \/ GnReturn

SpecGen == InitGen /\ [][NextGen]_vars

\* ================================================================= Part H
\* server.py (the same functions are in server_loop.py).  One client
\* connection; the listening socket only accepts.
RecvSize == 1024
Min(a, b) == IF a < b THEN a ELSE b
\* what the selector reports for the registered connection: readable with
\* bytes to read or at end of stream, writable with room in the send buffer
SvMask(pending, eof, room) ==
    (IF pending > 0 \/ eof THEN {"READ"} ELSE {})
        \cup (IF room > 0 THEN {"WRITE"} ELSE {})
\* sock.recv(1024): the bytes at hand, none at end of stream
SvRecv(pending) == Min(pending, RecvSize)
\* service_connection: "if mask & selectors.EVENT_WRITE: if data.outb:"
SvWrites(mask, outb) == "WRITE" \in mask /\ outb > 0
\* sock.send(data.outb) on the open non-blocking socket: what fits
SvSend(outb, room) == Min(outb, room)

\* accept_connection: the client socket is registered for both events
SvAccept ==
    /\ sv_st = "run"
    /\ sv_conn = "none"
    /\ sv_conn' = "registered"
    /\ sv_outb' = 0
    /\ UNCHANGED <<sv_pending, sv_eof, sv_room, sv_nsent, sv_st, sv_ev>>

\* the client sends n bytes
SvClientSend(n) ==
    /\ sv_conn # "none"
    /\ ~sv_eof
    /\ sv_nsent + n <= MaxBytes
    /\ sv_nsent' = sv_nsent + n
    /\ sv_pending' = IF sv_conn = "registered" THEN sv_pending + n
                     ELSE sv_pending
    /\ UNCHANGED <<sv_conn, sv_outb, sv_eof, sv_room, sv_st, sv_ev>>

\* the client shuts down its sending side
SvClientShutdown ==
    /\ sv_conn # "none"
    /\ ~sv_eof
    /\ sv_eof' = TRUE
    /\ UNCHANGED <<sv_conn, sv_outb, sv_pending, sv_room, sv_nsent, sv_st,
                   sv_ev>>

\* the client reads n echoed bytes, which frees the server's send buffer
SvClientRead(n) ==
    /\ sv_conn = "registered"
    /\ n >= 1
    /\ sv_room + n <= SvBuffer
    /\ sv_room' = sv_room + n
    /\ UNCHANGED <<sv_conn, sv_outb, sv_pending, sv_eof, sv_nsent, sv_st,
                   sv_ev>>

\* the event loop: select reports the connection with its mask and
\* service_connection(key, mask) runs: on EVENT_READ recv, and either
\* outb += recv_data or unregister and close; on EVENT_WRITE send outb if
\* there is any.  send on the closed socket raises OSError, which leaves
\* service_connection and the loop.
SvService ==
    /\ sv_st = "run"
    /\ sv_conn = "registered"
    /\ LET mask == SvMask(sv_pending, sv_eof, sv_room)
           reads == "READ" \in mask
           got == IF reads THEN SvRecv(sv_pending) ELSE -1
           conn == IF reads /\ got = 0 THEN "closed" ELSE sv_conn
           outb == IF reads /\ got > 0 THEN sv_outb + got ELSE sv_outb
           writes == SvWrites(mask, outb)
           sent == IF writes /\ conn = "registered"
                   THEN SvSend(outb, sv_room) ELSE 0
       IN /\ mask # {}
          /\ sv_pending' = IF reads THEN sv_pending - got ELSE sv_pending
          /\ sv_conn' = conn
          /\ sv_outb' = outb - sent
          /\ sv_room' = sv_room - sent
          /\ sv_st' = IF writes /\ conn = "closed" THEN "raised" ELSE sv_st
          /\ sv_ev' = [mask |-> mask, recv |-> got,
                       send |-> IF ~writes THEN "none"
                                ELSE IF conn = "closed" THEN "closed"
                                ELSE "ok"]
    /\ UNCHANGED <<sv_eof, sv_nsent>>

\* ---- the echo server and one client: specification SpecSv
SvAcceptConn == SvAccept /\ UNCHANGED notSv
SvClientSends == (\E n \in 1 .. MaxBytes : SvClientSend(n)) /\ UNCHANGED notSv
SvClientShuts == SvClientShutdown /\ UNCHANGED notSv
SvClientReads == (\E n \in 1 .. SvBuffer : SvClientRead(n)) /\ UNCHANGED notSv
SvServes == SvService /\ UNCHANGED notSv

InitSv == SvInit /\ QIdle /\ CbInit /\ cb_count = 0 /\ IoInit /\ TwInit /\ LpInit /\ ElInit /\ GnInit

NextSv ==
    \/ SvAcceptConn
    \/ SvClientSends
    \/ SvClientShuts
    \/ SvClientReads
    \/ SvServes

SpecSv == InitSv /\ [][NextSv]_vars

\* ================================================================ claims
WokenByPut == {t \in Tasks : woke[t].by = "put" /\ InSeq(ready, t)}
\* the step resumes the rescheduled getter t
Resumed(t) == woke[t].by # "no" /\ woke'[t].by = "no"
Last(s) == s[Len(s)]

\* C1: the items returned by completed gets, in completion order, are a
\* prefix of the items put, in put order (put number n puts item n)
C1_GetsArePrefixOfPuts ==
    /\ Len(gotlog) <= nput
    /\ \A i \in DOMAIN gotlog : gotlog[i] = i - 1
\* a getter that was blocked before the put completes the second get
C1_Witness == Len(gotlog) = 2 /\ ev.op = "reget" /\ ev.res = "item"

\* C2: between task steps items and waiting are never both non-empty
C2_NeverBothNonEmpty ==
    running = None => ~(items # <<>> /\ waiting # <<>>)
\* what put keeps instead: while getters are waiting, there are no more
\* buffered items than getters that put has rescheduled and that have not
\* resumed yet
BothOnlyWhileGetterRescheduled ==
    waiting # <<>> => Len(items) <= Cardinality(WokenByPut)
\* an item is buffered while a getter waits
BothNonEmpty == running = None /\ items # <<>> /\ waiting # <<>>

\* C3: put on an open queue with a waiting getter reschedules the getter
\* that waited longest, that getter's get returns the item put, and no get
\* of another task returns that item before it resumes
C3_PutHandsItemToLongestWaiter ==
    [][/\ (nput' = nput + 1 /\ waiting # <<>>) =>
              /\ ready' = Append(ready, Head(waiting))
              /\ waiting' = Tail(waiting)
       /\ \A t \in Tasks : woke[t].by = "put" =>
              /\ Resumed(t) => gotlog' = Append(gotlog, woke[t].item)
              /\ (gotlog' # gotlog /\ ~Resumed(t)) =>
                     Last(gotlog') # woke[t].item]_vars

\* the getters blocked in get: coroutines suspended on waiting, and chains
\* whose get call left its closure on waiting and has not called back
Blocked == {t \in Tasks : inget[t] /\ InSeq(waiting, t)}
CbBlocked == {t \in Chains : cb_inget[t] /\ InSeq(cb_waiting, GetFn(t))}

\* C4, coroutine queue: close() with items empty reschedules every blocked
\* getter once and leaves none waiting; a getter resumed on a closed queue
\* without items observes QueueClosed.
CloseWakesEveryGetterOnce ==
    [][ /\ (ev'.op = "close" /\ items = <<>>) =>
              /\ \A t \in Blocked : Count(ready', t) = 1
              /\ waiting' = <<>>
        /\ (ev'.op = "reget" /\ closed /\ items = <<>>) =>
              ev'.res = "QueueClosed" ]_vars

\* C4, callback queue: if close() is called while items is empty and k >= 1
\* getters are blocked in get, every one of them is rescheduled, and each,
\* when resumed, observes QueueClosed exactly once: none is on ready twice,
\* and a resumed get call is one that had not called back before.
C4_CloseWakesEveryGetterOnce ==
    [][ /\ (cb_ev'.op = "close" /\ cb_items = <<>>) =>
              \A t \in CbBlocked : Count(cb_ready', GetFn(t)) = 1
        /\ cb_ev'.op = "reget" =>
              /\ cb_inget[cb_ev'.t]
              /\ (cb_closed /\ cb_items = <<>>) => cb_ev'.res = "QueueClosed"
      ]_vars

\* C5: a getter that is waiting when close() finds items non-empty is not
\* left blocked when run() returns
C5_NoGetterLeftBlocked ==
    (runst = "returned" /\ closed) => waiting = <<>>

\* C6: a put on a closed queue fails with QueueClosed and leaves items,
\* waiting and ready unchanged; closed never becomes false again
C6_PutAfterCloseFails ==
    [][/\ (closed /\ ev'.op = "put") =>
              /\ ev'.res = "QueueClosed"
              /\ UNCHANGED <<items, waiting, ready, nput>>
       /\ closed => closed']_vars
C6_Witness == closed /\ ev.op = "put" /\ ev.res = "QueueClosed" /\ waiting # <<>>

\* C7: a get on a closed queue returns the front buffered item without
\* suspending, and with items empty it fails at once with QueueClosed,
\* without suspending the caller and without adding it to waiting
C7_GetAfterClose ==
    [][(closed /\ ev'.op = "get") =>
          IF items # <<>>
          THEN /\ ev'.res = "item"
               /\ items' = Tail(items)
               /\ gotlog' = Append(gotlog, Head(items))
               /\ running' = running
               /\ UNCHANGED <<waiting, inget, ready>>
          ELSE /\ ev'.res = "QueueClosed"
               /\ running' = running \/ runst' = "raised"
               /\ UNCHANGED <<waiting, inget, ready, items, gotlog>>]_vars
\* the queue was closed before any put and a get failed
C7_Witness == closed /\ nput = 0 /\ ev.op = "get" /\ ev.res = "QueueClosed"
C7_WitnessDrain == closed /\ ev.op = "get" /\ ev.res = "item" /\ Len(gotlog) = 2

\* the items of put number 0 .. n-1, in put order
Upto(n) == [i \in 1..n |-> i - 1]

\* C8: with a producer that puts count items, sleeping between the puts, and
\* then closes, and one consumer that gets until QueueClosed, the consumer
\* observes exactly the count items in put order and then exactly one
\* QueueClosed, and run() returns with both finished; for the coroutine
\* program and for the callback program.
C8_ProducerConsumer ==
    /\ <>(runst = "returned" \/ cb_runst = "returned")
    /\ [](runst # "raised" /\ cb_runst # "raised")
    /\ [](runst = "returned" =>
             /\ gotlog = Upto(count)
             /\ \A t \in 1..2 : pc[t] = "done")
    /\ [][ (ev'.res = "QueueClosed" /\ ev' # ev) =>
              /\ gotlog = Upto(count)
              /\ \E t \in 1..2 : pc[t] = "c_get" /\ pc'[t] = "c_end" ]_vars
    /\ [](cb_nclosed >= 1 => cb_gotlog = Upto(cb_count))
    /\ [](cb_runst = "returned" =>
             /\ cb_gotlog = Upto(cb_count)
             /\ cb_nclosed = 1
             /\ \A t \in Chains : ~cb_inget[t] /\ ~Scheduled(t))
C8_Witness == runst = "returned" /\ count = MaxCount /\ gotlog = Upto(MaxCount)
C8_WitnessCb ==
    /\ cb_runst = "returned" /\ cb_count = MaxCount /\ cb_nclosed = 1
    /\ cb_gotlog = Upto(MaxCount)

\* how often the function f is in the containers of the select-based
\* scheduler, and coroutine t in those of the coroutine scheduler
IoPlaces(f) ==
    Count(io_ready, f)
    + Cardinality({i \in DOMAIN io_sleeping : io_sleeping[i][3] = f})
    + Count(Values(io_read), f)
    + Count(Values(io_write), f)
QPlaces(t) ==
    Count(ready, t) + Cardinality({i \in DOMAIN sleeping : sleeping[i][3] = t})
IoPlacesAfter(f) ==
    Count(io_ready', f)
    + Cardinality({i \in DOMAIN io_sleeping' : io_sleeping'[i][3] = f})
    + Count(Values(io_read'), f)
    + Count(Values(io_write'), f)
IoTasks == {f \in Funcs : io_kind[f] \in {"task", "done"}}

\* C9, select-based scheduler: between task steps each task is in at most
\* one of ready, the sleeping heap, read_waiting and write_waiting, and at
\* most once in it; a step that registered a sleep or an I/O wait leaves
\* ready as it was.
C9_TaskInAtMostOnePlace ==
    /\ [](io_running = None => \A t \in IoTasks : IoPlaces(t) <= 1)
    /\ [][ io_ev'.op \in {"sleep", "recv", "send"} =>
              (io_ready' = io_ready /\ IoPlacesAfter(io_ev'.t) = 1) ]_vars
\* a task slept while another task waits for a socket and a third place,
\* ready, is in use
C9_Witness ==
    /\ io_ev.op = "sleep"
    /\ io_running = None
    /\ io_sleeping # <<>>
    /\ io_read # <<>>

\* C9, coroutine scheduler (async.py, async_producer_close.py): between
\* steps each coroutine is at most once on ready and the sleeping heap.
CoroutineInAtMostOnePlace ==
    running = None => \A t \in Tasks : QPlaces(t) <= 1

\* (deadline, sequence) keys in the order of the claim
KeyLeq(a, b) == a[1] < b[1] \/ (a[1] = b[1] /\ a[2] <= b[2])

\* C10, SleepingLoop: coroutines that sleep are resumed in nondecreasing
\* order of their deadlines, and those with equal deadlines in the order in
\* which they were scheduled.
C10_TimersInDeadlineOrder ==
    [][lp_last' # lp_last => KeyLeq(lp_last, lp_last')]_vars

\* C10, select-based scheduler: functions scheduled with call_later / sleep
\* are resumed in nondecreasing order of deadline, and with equal deadlines
\* in ascending order of sequence number.
IoTimersInDeadlineOrder ==
    [][io_last' # io_last => KeyLeq(io_last, io_last')]_vars
\* two timers with one deadline are due and on ready together
IoTimersWitness ==
    \E f, g \in Funcs :
       /\ f # g
       /\ io_mark[f] # <<>> /\ io_mark[g] # <<>>
       /\ io_mark[f][1] = io_mark[g][1]
       /\ io_ready = <<f, g>>

\* the function f is on the sleeping heap and the clock is past its deadline
IoOverdue(f) ==
    \E i \in DOMAIN io_sleeping :
        io_sleeping[i][3] = f /\ io_now > io_sleeping[i][1]

\* C11: timers are not starved: a function on the sleeping heap whose
\* deadline has passed is eventually moved to ready and called, however busy
\* the ready queue is.  The code looks at the heap only when ready is empty,
\* so a Task that awaits Switch() at every step keeps every timer waiting.
\* (A run() that an exception has ended resumes nothing; that is no
\* starvation.)
C11_TimersNotStarved ==
    \A f \in Funcs : IoOverdue(f) ~> (io_running = f \/ io_runst = "raised")

\* C12: a function that went to the sleeping heap is not resumed while the
\* clock is earlier than its deadline, also when select returns early because
\* a socket is ready: run() moves a timer to ready only at a clock reading
\* that is not before its deadline, and calls it no earlier than that.
C12_NoEarlyResume ==
    /\ [](\A f \in Funcs : io_mark[f] # <<>> => io_now >= io_mark[f][1])
    /\ [][ (io_ev'.op = "call" /\ io_ev'.res = "timer") =>
              /\ io_mark[io_ev'.t] # <<>>
              /\ io_now' >= io_mark[io_ev'.t][1] ]_vars
\* a Task that slept has been called again, the clock not before its deadline
C12_Witness ==
    /\ io_ev.op = "call" /\ io_ev.res = "timer"
    /\ io_kind[io_ev.t] = "task"
    /\ io_now >= io_last[1]
\* select has returned early for a ready socket and has left the timer that
\* is not due on the heap
IoSelectEarly ==
    /\ io_ev.op = "select" /\ io_ev.res = "timeout"
    /\ io_ready # <<>>
    /\ io_sleeping # <<>>
    /\ io_now < HeapTop(io_sleeping)[1]
\* async.py, async_producer_close.py: run() pops the heap when ready is
\* empty and sleeps until the deadline before it resumes the coroutine
SleeperNotEarly ==
    [][ (runst = "run" /\ running = None /\ ready = <<>> /\ sleeping # <<>>
         /\ running' # None) => now' >= HeapTop(sleeping)[1] ]_vars

\* event_loop.py: a coroutine popped from waiting is sent to only at a
\* reading of time.time() that is not before its until, also when select has
\* returned readable files
ElSleeperNotEarly ==
    [][ (el_ev'.op = "resume" /\ el_ev'.by = "waiting" /\ el_ev' # el_ev) =>
            el_now' >= el_ev'.until ]_vars
\* select has returned a readable file before the until of the popped entry:
\* the reader runs and the sleeper goes back to waiting
ElSelectEarly ==
    /\ el_ev.op = "resume" /\ el_ev.by = "waiting_read"
    /\ el_waiting # <<>> /\ el_now < Head(el_waiting)[1]

\* C13: with A and B on ready and C scheduled onto ready during A's step,
\* A and B both step before C takes its first step: whenever run() steps a
\* generator, every generator that was on ready when it was appended has
\* stepped since.
C13_ReadyIsFifo ==
    [][ (gn_running = None /\ gn_running' # None) =>
            gn_ahead[gn_running'].left = {} ]_vars
\* C, scheduled by A during its step while B was on ready, takes its first
\* step
C13_Witness ==
    /\ gn_ev.op = "step" /\ gn_ev.res = "first"
    /\ gn_ahead[gn_ev.t].by \notin {None, gn_ev.t}
    /\ gn_ahead[gn_ev.t].were # {}
    /\ gn_kind[gn_ahead[gn_ev.t].by] = "live"
\* async_io.py: ready changes only by popleft at its head and append at its
\* tail, and the function run() calls is the one it popped from the head
IoReadyIsFifo ==
    [][ /\ \E k \in {0, 1} :
             /\ k <= Len(io_ready)
             /\ Len(io_ready') >= Len(io_ready) - k
             /\ \A i \in 1 .. (Len(io_ready) - k) : io_ready'[i] = io_ready[i + k]
        /\ (io_running = None /\ io_running' # None) =>
              (io_ready # <<>> /\ io_running' = Head(io_ready)) ]_vars

\* ready, sleeping, read_waiting and write_waiting are all empty
IoAllEmpty ==
    io_ready = <<>> /\ io_sleeping = <<>> /\ io_read = <<>> /\ io_write = <<>>

\* C14: run() returns exactly when ready, sleeping, read_waiting and
\* write_waiting are all empty: it never returns while one of them holds
\* something, after its return all four are empty, and once all four are
\* empty with no function running the one step run() can take is its return.
C14_ReturnsWhenAllEmpty ==
    /\ [][ (io_runst = "run" /\ io_runst' = "returned") =>
              (IoAllEmpty /\ IoAllEmpty') ]_vars
    /\ [](io_runst = "returned" => IoAllEmpty)
    /\ []((io_runst = "run" /\ io_running = None /\ IoAllEmpty) =>
              (ENABLED IoReturn /\ ~ENABLED IoIter /\ ~ENABLED IoWait))
\* with run() taking its steps, it does return from there
IoReturnsOnceEmpty ==
    (io_runst = "run" /\ io_running = None /\ IoAllEmpty)
        ~> (io_runst = "returned")
\* run() has returned after Tasks slept and waited for a socket
C14_Witness ==
    /\ io_runst = "returned"
    /\ IoAllEmpty
    /\ io_sequence > 0
    /\ \E f \in Funcs : io_kind[f] = "done"

\* the coroutines handed to the coroutine scheduler, the chains handed to the
\* callback scheduler
Born == {t \in Tasks : pc[t] # "unborn"}
CbBorn == {t \in Chains : cb_body[t] # "unborn"}

\* C15: if every task completes on its first step and schedules nothing,
\* run() steps each task once, in the order they were added (the order of
\* their numbers), then returns, and ready and the sleeping heap are empty.
C15_OneDrain ==
    /\ <>(runst = "returned") /\ <>(cb_runst = "returned")
    /\ [][ (ev'.op = "resume" /\ ev' # ev) =>
              \/ ev.op = "run" /\ ev'.t = 1
              \/ ev.op = "finish" /\ ev'.t = ev.t + 1 ]_vars
    /\ [][ (ev'.op = "return" /\ ev' # ev) =>
              \/ ev.op = "run" /\ Born = {}
              \/ ev.op = "finish" /\ ev.t = Cardinality(Born) ]_vars
    /\ [](runst = "returned" =>
              /\ ready = <<>> /\ sleeping = <<>>
              /\ \A t \in Born : pc[t] = "done")
    /\ [][ (cb_ev'.op = "call" /\ cb_ev' # cb_ev) =>
              \/ cb_ev.op = "run" /\ cb_ev'.t = 1
              \/ cb_ev.op = "end" /\ cb_ev'.t = cb_ev.t + 1 ]_vars
    /\ [][ (cb_ev'.op = "return" /\ cb_ev' # cb_ev) =>
              \/ cb_ev.op = "run" /\ CbBorn = {}
              \/ cb_ev.op = "end" /\ cb_ev.t = Cardinality(CbBorn) ]_vars
    /\ [](cb_runst = "returned" => cb_ready = <<>> /\ cb_sleeping = <<>>)
\* both schedulers have returned after stepping all their tasks
C15_Witness ==
    /\ runst = "returned" /\ Born = Tasks
    /\ cb_runst = "returned" /\ CbBorn = Chains

\* C16: a recv / accept or send for a socket that already has a waiter in
\* that direction fails with a duplicate-waiter error and leaves the
\* registered waiter in place.  read_wait and write_wait assign to the dict:
\* the second Task replaces the first and no error is raised.
C16_DuplicateWaiterRefused ==
    [][ (io_running # None /\ io_ev'.op \in {"recv", "send"}) =>
            /\ \A i \in DOMAIN io_read :
                  i \in DOMAIN io_read' /\ io_read'[i] = io_read[i]
            /\ \A i \in DOMAIN io_write :
                  i \in DOMAIN io_write' /\ io_write'[i] = io_write[i]
            /\ (io_read' = io_read /\ io_write' = io_write) =>
                  io_ev'.res = "DuplicateWaiter" ]_vars

\* C17: when run() is stepping no coroutine, sleep and a get that would have
\* to wait fail with an error and leave ready, the sleeping heap and the
\* queue's waiting list as they are.  After a step that ended with
\* StopIteration Scheduler.current still holds the finished coroutine: both
\* calls succeed and register it.
C17_OutsideCallsFail ==
    [][ (ev' # ev /\ ev'.t = None /\ ev'.op \in {"sleep", "get"}
         /\ (ev'.op = "get" => items = <<>>)) =>
            /\ ev'.res \in {"RuntimeError", "QueueClosed"}
            /\ UNCHANGED <<ready, sleeping, waiting>> ]_vars
\* before run() both calls do fail and change nothing
OutsideCallFailed ==
    /\ ev.t = None /\ ev.op \in {"sleep", "get"} /\ ev.res = "RuntimeError"
    /\ runst = "idle"

\* C18: an error raised by a Task's step, other than its normal completion,
\* reaches the caller of run(): run() takes no further step, and the Task
\* that failed is in none of ready, sleeping, read_waiting, write_waiting.
C18_ErrorReachesCaller ==
    /\ [][ (\/ io_running # None /\ io_ev'.op = "raise"
            \/ io_ev'.op = "call" /\ io_ev'.res = "IndexError") =>
              /\ io_runst' = "raised"
              /\ IoPlacesAfter(io_ev'.t) = 0 ]_vars
    /\ [][ io_runst = "raised" => UNCHANGED ioVars ]_vars
    /\ [](io_runst = "raised" => IoPlaces(io_ev.t) = 0)
\* a Task has raised while another function was on the heap
C18_Witness ==
    /\ io_runst = "raised" /\ io_ev.op = "raise"
    /\ io_sleeping # <<>>
\* async_producer_close.py: an exception that leaves send() leaves run(), and
\* the coroutine that raised is not on ready, on the heap or on waiting
CoroutineErrorReachesCaller ==
    /\ [](runst = "raised" =>
             /\ QPlaces(ev.t) = 0 /\ ~InSeq(waiting, ev.t)
             /\ running = None)
    /\ [][ runst = "raised" => UNCHANGED qVars ]_vars
CoroutineRaised == runst = "raised" /\ ready # <<>>

\* chain t of the callback program has ended: it was handed to the scheduler,
\* none of its functions is running or scheduled, and it has no get pending
CbTerminated(t) ==
    /\ cb_body[t] # "unborn"
    /\ cb_running # t
    /\ ~Scheduled(t)
    /\ ~cb_inget[t]

\* C19: a task that has terminated is never stepped again: no later put,
\* close, timer or readiness report puts it back on ready.  close() of the
\* callback queue leaves the closures of the getters on waiting, so a second
\* close() schedules the get of a chain that has ended and its callback runs
\* again.
C19_TerminatedNotSteppedAgain ==
    [][ \A t \in Chains : CbTerminated(t) => cb_running' # t ]_vars
\* async_io.py: a Task whose coroutine has finished or raised is in no
\* container and is not called again
IoTerminatedNotSteppedAgain ==
    /\ [](\A f \in Funcs : io_kind[f] = "done" => IoPlaces(f) = 0)
    /\ [][ \A f \in Funcs : io_kind[f] = "done" => io_running' # f ]_vars
IoTerminated == \E f \in Funcs : io_kind[f] = "done" /\ io_ev.op = "select"
\* async_producer_close.py: a coroutine that has finished or raised is not on
\* ready, on the heap or on waiting, and is not resumed again
CoroutineTerminatedNotSteppedAgain ==
    /\ [](\A t \in Tasks : pc[t] = "done" =>
              QPlaces(t) = 0 /\ ~InSeq(waiting, t))
    /\ [][ \A t \in Tasks : pc[t] = "done" => running' # t ]_vars

\* C20: the scheduler is deterministic.  Of two runs that are in the same
\* state, a step of the one and a step of the other that get the same input
\* (the same request of the program, or the same sets reported by select and
\* the same clock reading) lead to the same state, and call the same
\* function; so two runs started from the same tasks with the same inputs
\* pass through the same states and step the tasks in the same order.
C20_Deterministic == tw_phase = "compare" => IoFull = tw_first
\* both runs have been through a select that reported two sockets of one
\* waiter map in one batch
C20_Witness ==
    /\ tw_phase = "compare"
    /\ io_ev.op = "select"
    /\ Cardinality(io_in.rs) >= 2
\* both runs have been through a select that moved a socket waiter and a due
\* timer to ready in one batch
TwWaiterAndTimer ==
    /\ tw_phase = "compare"
    /\ io_ev.op = "select"
    /\ io_in.rs \cup io_in.ws # {}
    /\ \E f \in Funcs : io_mark[f] # <<>>
\* the second run took the step the first run took: with the same input no
\* other kind of step is enabled
TwSameStep == tw_phase = "compare" => io_ev.op = tw_first.ev.op
\* run() calls the head of ready
IoCallsHead == [][ io_ev'.op = "call" /\ io_ev' # io_ev => io_ev'.t = Head(io_ready) ]_vars


\* C21: run of event_loop.py resumes a coroutine that waits to read also
\* after all the sleeping coroutines have finished: once waiting is empty and a
\* coroutine is registered in waiting_read, that coroutine is taken out of
\* waiting_read again (it is sent to) and run goes on to return.
C21_ReaderResumedAfterSleepers ==
    (el_pc = "loop" /\ el_waiting = <<>> /\ el_read # <<>>)
        ~> (el_read = <<>> \/ el_pc = "returned")
\* with waiting empty and waiting_read not, the loop body is the IndexError
\* branch only: no select, no send, no return
ElReaderStuck ==
    (el_pc = "loop" /\ el_waiting = <<>> /\ el_read # <<>>) =>
        (ENABLED ElBusy /\ ~ENABLED ElStep /\ ~ENABLED ElEnd)
ElReaderLeft == el_pc = "loop" /\ el_waiting = <<>> /\ el_read # <<>>


\* C22: run() calls select only while ready is empty, and what is on ready
\* leaves it only by being popped and called; so everything a select (or a
\* step after it) put on ready has been called before the next select.
C22_SelectOnlyWhenReadyEmpty ==
    /\ [][ IoSelect => (io_ready = <<>>) ]_vars
    /\ [][ \A f \in Funcs :
             Count(io_ready, f) > Count(io_ready', f) =>
                 (io_ev'.op = "call" /\ io_ev'.t = f
                  /\ f = Head(io_ready)) ]_vars
\* select has been called again after a function it had woken from the heap
\* was called, and has put functions on ready
C22_Witness ==
    /\ io_ev.op = "select"
    /\ io_last # <<0, 0>>
    /\ io_ready # <<>>


\* the earliest deadline on the sleeping heap
IoEarliest ==
    CHOOSE d \in {io_sleeping[i][1] : i \in DOMAIN io_sleeping} :
        \A i \in DOMAIN io_sleeping : d <= io_sleeping[i][1]
\* select returns with no socket reported, at the clock reading n
IoSelectIdle(n) ==
    IoSelect /\ io_read' = io_read /\ io_write' = io_write /\ io_now' = n
\* run() is at the call of select
IoAtSelect ==
    /\ io_runst = "run" /\ io_running = None /\ io_ready = <<>>
    /\ (io_sleeping # <<>> \/ io_read # <<>> \/ io_write # <<>>)
\* C23: the timeout run() gives to select is infinite exactly when the
\* sleeping heap is empty, and max(0, earliest deadline - now) otherwise:
\* a call that returns with no socket reported was made with timers pending
\* and returns with the clock at or after the later of now and the earliest
\* deadline, which is when that timeout has run out.
C23_TimeoutIsEarliestDeadline ==
    /\ [][ IoSelect =>
             /\ (io_ev'.res = "forever") <=> (io_sleeping = <<>>)
             /\ (io_read' = io_read /\ io_write' = io_write) =>
                   /\ io_sleeping # <<>>
                   /\ io_now' >= Max(io_now, IoEarliest) ]_vars
    /\ [](IoAtSelect =>
             IoTimeout(io_sleeping, io_now) =
                 IF io_sleeping = <<>> THEN Forever
                 ELSE Max(0, IoEarliest - io_now))
\* run() is about to call select with a timer pending that is not yet due
\* and a Task waiting to read
C23_Witness ==
    /\ IoAtSelect
    /\ io_sleeping # <<>>
    /\ io_read # <<>>
    /\ IoEarliest > io_now
\* with timers pending select can return with no socket reported as soon as
\* the earliest deadline is reached: it does not block past it
IoSelectReturnsAtDeadline ==
    (IoAtSelect /\ io_sleeping # <<>>) =>
        ENABLED IoSelectIdle(Max(io_now, IoEarliest))
\* select is about to be called with no timer pending
IoSelectForever == IoAtSelect /\ io_sleeping = <<>>


\* the heap entry e is on the heap after the step
IoStillSleeping(e) == \E j \in DOMAIN io_sleeping' : io_sleeping'[j] = e
\* C24: when select has returned and the clock reads now, run() moves every
\* timer whose deadline is less than or equal to now from the heap to ready,
\* a timer whose deadline equals now included, and no timer with a later
\* deadline.
C24_DueTimersMoved ==
    [][ IoSelect =>
          \A i \in DOMAIN io_sleeping :
              (io_sleeping[i][1] <= io_now') <=>
                  (~IoStillSleeping(io_sleeping[i])
                   /\ InSeq(io_ready', io_sleeping[i][3])) ]_vars
\* what the code does: the timers with a deadline before now are moved, in
\* the order of (deadline, sequence), the others stay
IoStrictlyDueMoved ==
    [][ IoSelect =>
          /\ \A i \in DOMAIN io_sleeping :
                (io_sleeping[i][1] < io_now') <=>
                    (~IoStillSleeping(io_sleeping[i])
                     /\ InSeq(io_ready', io_sleeping[i][3]))
          /\ \A i, j \in DOMAIN io_ready' :
                (i < j /\ io_mark'[io_ready'[i]] # <<>>
                       /\ io_mark'[io_ready'[j]] # <<>>) =>
                    Less(TRUE, io_mark'[io_ready'[i]], io_mark'[io_ready'[j]])
      ]_vars


\* the waiters of the sockets ks in the waiter map m
IoWaitersOf(m, ks) == {m[i][2] : i \in {j \in DOMAIN m : m[j][1] \in ks}}
\* the waiter map m without the entries of the sockets ks, order kept
IoWithout(m, ks) ==
    LET keep == {i \in DOMAIN m : m[i][1] \notin ks}
        nth(k) == CHOOSE i \in keep : Cardinality({j \in keep : j < i}) = k - 1
    IN [k \in 1..Cardinality(keep) |-> m[nth(k)]]
\* C25: in the step in which select returns, with rs and ws the sockets it
\* reported: the entry of each reported socket is gone from its map and its
\* waiter is on ready exactly once afterwards, ready holds nothing else but
\* the timers moved in the same step, and the entries of the sockets that
\* were not reported are left as they were, in their order.
C25_ReportedWaitersMoved ==
    [][ IoSelect =>
          LET rs == io_in'.rs
              ws == io_in'.ws
              woken == IoWaitersOf(io_read, rs) \cup IoWaitersOf(io_write, ws)
              timers == {io_sleeping[i][3] :
                            i \in {j \in DOMAIN io_sleeping :
                                      ~IoStillSleeping(io_sleeping[j])}}
          IN /\ rs \subseteq Keys(io_read) /\ ws \subseteq Keys(io_write)
             /\ \A f \in woken : Count(io_ready', f) = 1
             /\ \A f \in Funcs :
                   InSeq(io_ready', f) => f \in woken \cup timers
             /\ Len(io_ready') = Cardinality(rs) + Cardinality(ws)
                                 + Len(io_sleeping) - Len(io_sleeping')
             /\ io_read' = IoWithout(io_read, rs)
             /\ io_write' = IoWithout(io_write, ws)
             /\ \A f \in woken :
                   ~InSeq(Values(io_read'), f) /\ ~InSeq(Values(io_write'), f)
      ]_vars
\* select reported one socket of read_waiting and not the other: the waiter
\* of the first is on ready and the entry of the second is still in the map
C25_Witness ==
    /\ io_ev.op = "select"
    /\ io_in.rs # {}
    /\ io_read # <<>>
    /\ \E f \in Funcs : InSeq(io_ready, f) /\ io_mark[f] = <<>>


\* C26: get called by the running coroutine while items is not empty takes
\* the front item and returns it in the same step: the coroutine is still
\* the one running, it is on neither waiting nor ready, nothing has been
\* popped from ready (no other coroutine ran) and the rest of items is left.
C26_GetWithItemsImmediate ==
    [][ \A t \in Tasks :
          (running = t /\ items # <<>> /\ Get(t)) =>
              /\ ev'.res = "item"
              /\ items' = Tail(items)
              /\ gotlog' = Append(gotlog, Head(items))
              /\ running' = t
              /\ current' = current
              /\ ~inget'[t]
              /\ waiting' = waiting
              /\ ready' = ready
              /\ sleeping' = sleeping ]_vars
\* a coroutine called get with more than one item queued, got the front item
\* and runs on
C26_Witness ==
    /\ ev.op = "get"
    /\ ev.res = "item"
    /\ running = ev.t
    /\ items # <<>>
    /\ gotlog # <<>>
\* the same for get(callback) of the callback queue: the callback is called
\* with the front item inside get
CbGetWithItemsImmediate ==
    [][ \A t \in Chains :
          (cb_running = t /\ cb_items # <<>> /\ CbGet(t)) =>
              /\ cb_ev'.res = "item"
              /\ cb_items' = Tail(cb_items)
              /\ cb_gotlog' = Append(cb_gotlog, Head(cb_items))
              /\ cb_running' = t
              /\ ~cb_inget'[t]
              /\ cb_waiting' = cb_waiting
              /\ cb_ready' = cb_ready
              /\ cb_sleeping' = cb_sleeping ]_vars
CbGotImmediately ==
    cb_ev.op = "get" /\ cb_ev.res = "item" /\ cb_running = cb_ev.t


\* C27: a generator that yields is appended to the tail of ready, the rest
\* of ready unchanged; and when run() steps it the next time, every generator
\* that was on ready at its yield has been stepped exactly once since: it
\* has finished, or it yielded in its turn and waits on ready behind the
\* one stepped now (which was still ahead of it when it yielded).
C27_YieldIsRoundRobin ==
    /\ [][ \A g \in Gens :
             GnYield(g) => gn_ready' = Append(gn_ready, g) ]_vars
    /\ [][ (gn_running = None /\ gn_running' # None
            /\ ~gn_ahead[gn_running'].first) =>
              LET g == gn_running'
              IN /\ gn_ahead[g].by = g
                 /\ gn_ahead[g].left = {}
                 /\ \A h \in gn_ahead[g].were :
                       \/ gn_kind[h] = "done"
                       \/ /\ InSeq(gn_ready', h)
                          /\ Count(gn_ready', h) = 1
                          /\ gn_ahead[h].by = h
                          /\ g \in gn_ahead[h].left ]_vars
\* a generator that yielded with two others on ready is stepped again, both
\* of them waiting on ready after their own yields
C27_Witness ==
    /\ gn_ev.op = "step" /\ gn_ev.res = "again"
    /\ Cardinality(gn_ahead[gn_ev.t].were) >= 2
    /\ Len(gn_ready) >= 2

\* the same append for a coroutine of async.py / async_producer_close.py and
\* for a Task of async_io.py that awaits Switch()
CoroutineYieldAppends ==
    [][ \A t \in Tasks : Yield(t) => ready' = Append(ready, t) ]_vars
IoYieldAppends ==
    [][ \A t \in Funcs : IoYield(t) => io_ready' = Append(io_ready, t) ]_vars


\* C28: any two entries of the timer list are strictly ordered by their
\* keys, so ordering them never compares the tasks themselves: in run of
\* event_loop.py no sort of waiting gets as far as the coroutines of two
\* entries.
C28_OrderNeverComparesTasks ==
    ~(el_pc = "raised" /\ el_ev.op = "sort" /\ el_ev.res = "TypeError")
\* async_io.py: the entries on the heap have pairwise distinct sequence
\* numbers, none above the counter, and the counter grows by one with every
\* push and never otherwise
IoSequencesDistinct ==
    /\ [](\A i, j \in DOMAIN io_sleeping :
             /\ io_sleeping[i][2] <= io_sequence
             /\ i # j => /\ io_sleeping[i][2] # io_sleeping[j][2]
                         /\ Less(TRUE, io_sleeping[i], io_sleeping[j])
                            \/ Less(TRUE, io_sleeping[j], io_sleeping[i]))
    /\ [][ /\ io_sequence' \in {io_sequence, io_sequence + 1}
           /\ io_sequence' = io_sequence + 1 <=>
                 Len(io_sleeping') = Len(io_sleeping) + 1
           /\ io_sequence' = io_sequence + 1 =>
                 \E i \in DOMAIN io_sleeping' :
                     io_sleeping'[i][2] = io_sequence' ]_vars
\* async.py / async_producer_close.py: the same for Scheduler.sleep
SequencesDistinct ==
    /\ [](\A i, j \in DOMAIN sleeping :
             /\ sleeping[i][2] <= sequence
             /\ i # j => /\ sleeping[i][2] # sleeping[j][2]
                         /\ Less(TRUE, sleeping[i], sleeping[j])
                            \/ Less(TRUE, sleeping[j], sleeping[i]))
    /\ [][ /\ sequence' \in {sequence, sequence + 1}
           /\ sequence' = sequence + 1 =>
                 \E i \in DOMAIN sleeping' : sleeping'[i][2] = sequence' ]_vars
\* two timers with one deadline are on the heap
IoDeadlineTie ==
    \E i, j \in DOMAIN io_sleeping :
        i # j /\ io_sleeping[i][1] = io_sleeping[j][1]


\* C29: between steps, while run() has not been ended by an exception, every
\* Task that was handed to the scheduler and has not terminated is on ready,
\* on the sleeping heap, in read_waiting, in write_waiting or on the waiting
\* list of the AsyncQueue.
C29_LiveTaskHeld ==
    (io_running = None /\ io_runst # "raised") =>
        \A t \in Funcs :
            io_kind[t] = "task" => IoPlaces(t) + Count(io_qwaiting, t) >= 1
\* a Task that waited in get was put back on ready by put and got the item
IoGetterWoken == io_ev.op = "call" /\ io_ev.res = "item"
\* run() has returned with a Task still on the waiting list of the queue
IoGetterParked == io_runst = "returned" /\ io_qwaiting # <<>>
\* a Task woken by put finds the item taken by a get that did not wait
IoGetterPoppedEmpty == io_ev.op = "call" /\ io_ev.res = "IndexError"
\* the same for run of event_loop.py: a coroutine that has not finished is
\* in waiting or in waiting_read
ElLiveHeld ==
    el_pc = "loop" =>
        \A c \in ElCoros :
            el_kind[c] = "live" =>
                \/ \E i \in DOMAIN el_waiting : el_waiting[i][2] = c
                \/ \E i \in DOMAIN el_read : el_read[i][2] = c


\* C30: in the queue without close, a getter that put has rescheduled finds
\* items non-empty when run() resumes it: whenever the coroutine run() is
\* about to resume is suspended in get, an item is there for it.
C30_WokenGetterFindsItem ==
    (runst = "run" /\ running = None /\ ready # <<>> /\ inget[Head(ready)]) =>
        items # <<>>
\* the resumed getter popped from the empty deque
SqPoppedEmpty == ev.op = "reget" /\ ev.res = "IndexError" /\ runst = "raised"
\* with coroutine 1 the only one that calls get, it finds its item
SqOneGetterFindsItem == C30_WokenGetterFindsItem


\* C31: when run() has returned, no coroutine is left on the queue's waiting
\* list or suspended inside get: every get that was called has completed.
C31_NoGetterLeftWaiting ==
    runst = "returned" => (waiting = <<>> /\ \A t \in Tasks : ~inget[t])
\* producer(q, count) and consumer(q): the producer closes the queue before
\* it ends, and run() returns with nobody waiting
PCNoGetterLeftWaiting == cb_runst = "idle" => C31_NoGetterLeftWaiting
PCReturned == runst = "returned" /\ closed

\* C32: the callback queue and the coroutine queue are observationally
\* equivalent: driven by the same put, get and close requests from the same
\* getters, every outcome of a get (an item, QueueClosed, or waiting) is
\* delivered to the same getter with the same result in both, the items
\* delivered are the same, and the getters stand on the two ready queues in
\* the same order.
EqOwner(f) == f[2]
EqOwners(r) == [i \in DOMAIN r |-> EqOwner(r[i])]
EqIsGet(e) == e.op \in {"get", "reget"}
C32_QueuesEquivalent ==
    /\ EqIsGet(cb_ev) => ev = cb_ev
    /\ EqIsGet(ev) =>
          \/ cb_ev = ev
          \/ ev.res = "wait" /\ cb_ev = Ev("end", ev.t, "ok")
    /\ gotlog = cb_gotlog
    /\ EqOwners(cb_ready) = ready
\* without a second close() the two queues agree
EqOnceQueuesEquivalent == C32_QueuesEquivalent
\* a getter that waited has been told QueueClosed, in both queues
EqWaiterToldClosed ==
    /\ ev = Ev("reget", 1, "QueueClosed")
    /\ cb_ev = ev

\* run() is about to call select: the outer loop's condition holds and ready
\* is empty
IoInvokesSelect ==
    /\ io_runst = "run"
    /\ io_running = None
    /\ IoRunContinues(io_ready, io_sleeping, io_read, io_write)
    /\ IoMultiplexes(io_ready)
\* C33: run() never calls select with an infinite timeout while both the
\* read-waiter and the write-waiter map are empty: whenever it blocks without
\* a timeout there is a socket whose readiness can wake it.
C33_NeverBlocksWithNothingToWake ==
    (IoInvokesSelect /\ IoTimeout(io_sleeping, io_now) = Forever)
        => (io_read # <<>> \/ io_write # <<>>)
\* select was called without a timeout and returned for a waiting socket
C33_Witness ==
    /\ io_ev = Ev("select", None, "forever")
    /\ io_ready # <<>>
    /\ io_sleeping = <<>>

\* C34: call_soon and new_task add exactly one entry at the tail of ready and
\* leave the sleeping heap, the sequence counter, both waiter maps and the
\* order of the entries already on ready unchanged.
C34_AppendToReadyFrame ==
    [][ (io_ev'.op \in {"call_soon", "new_task"} /\ ioVars' # ioVars) =>
          /\ Len(io_ready') = Len(io_ready) + 1
          /\ io_ready'[Len(io_ready')] = io_ev'.t
          /\ SubSeq(io_ready', 1, Len(io_ready)) = io_ready
          /\ UNCHANGED <<io_sleeping, io_sequence, io_read, io_write>> ]_vars
\* while run() is going, an entry was appended behind another; timers have
\* been set before
C34_Witness ==
    /\ io_ev.op \in {"call_soon", "new_task"}
    /\ io_runst = "run"
    /\ Len(io_ready) >= 2
    /\ io_ready[Len(io_ready)] = io_ev.t
    /\ io_sequence > 0
\* an entry was appended with a timer pending
IoAppendedBesideTimer ==
    /\ io_ev.op \in {"call_soon", "new_task"}
    /\ io_ready # <<>>
    /\ io_sleeping # <<>>
\* new_task of async_producer_close.py: one entry at the tail of ready, the
\* heap, the counter and the queue untouched
CoroutineNewTaskFrame ==
    [][ (ev'.op = "new_task" /\ qVars' # qVars) =>
          /\ ready' = Append(ready, ev'.t)
          /\ UNCHANGED <<sleeping, sequence, items, waiting, closed>> ]_vars

C36_NoSendOnClosedSocket == sv_ev.send # "closed"
\* once the connection is unregistered and closed, service_connection is not
\* called for it again
SvClosedNotServicedAgain ==
    [][sv_conn = "closed" => (sv_conn' = "closed" /\ sv_ev' = sv_ev)]_vars
\* a connection closed at end of stream with nothing left to echo
SvClosedClean ==
    sv_conn = "closed" /\ sv_ev.recv = 0 /\ sv_ev.send = "none" /\ sv_nsent > 0

====
